---- MODULE Spec2Model ----
(***************************************************************************)
(* Model of the history engine of simplehtmleditor.js: the mutation        *)
(* observer callback (capture), the undo/redo stacks with the              *)
(* force-authorization list, the grouped replay of undoredo(), and the     *)
(* restorable store (ncsedtRestorable).                                    *)
(*                                                                         *)
(* The document is a small tree:                                           *)
(*     body > ed (ncsedt-editable) > { p > t (text node), img }            *)
(* p can be removed from and inserted into ed, before img or after it; t   *)
(* always stays in p and img in ed.  Beside p and img, ed holds the marked *)
(* elements: one <ncsedt-restorable> element, one                          *)
(* [data-ncsedt-restorable] element and the <ncsedt-removable> elements.   *)
(* They stay where they are; the writes to them are seen by the observer   *)
(* like every write under ed.                                              *)
(*                                                                         *)
(* Numbers of the source that are floats (mutation.time and the grouping   *)
(* window, both a number of milliseconds divided by TIME_SCALE_FACTOR) are *)
(* kept in fixed point, in units of 1/TIME_SCALE_FACTOR.                   *)
(*                                                                         *)
(* The operations are defined once.  Each specification at the end draws   *)
(* the inputs of the environment (which edits happen, at which times, with *)
(* which options) from its own small sets.                                 *)
(***************************************************************************)
EXTENDS Integers, Sequences, FiniteSets, TLC

\* ------------------------------------------------------------------------
\* Program constants
\* ------------------------------------------------------------------------
MIN_GROUPING_WINDOW_MS == 100
TIME_SCALE_FACTOR == 10000
DefaultGroupingWindowMs == 200

\* JavaScript null (an absent attribute, no nextSibling)
NULL == "<null>"

\* ------------------------------------------------------------------------
\* Bounds of the model
\* ------------------------------------------------------------------------
\* records on the undo stack, the redo stack and in the pending batch together
MaxRecords == 3
\* the same, in the specification of capture
MaxCaptured == 2
\* mutation records queued for one delivery of the observer callback
MaxPending == 2
\* tokens on the force list
MaxForce == 2

\* values Date.now() takes (milliseconds)
Times == {0, 50, 300}
TimesWindow50 == {0, 40, 200}
TimesCapture == {300}
TimesAuthorize == {0, 300}

\* the elements that are removed and inserted
Elements == {"p"}
FocusTargets == {"ed", "p", "img"}
TextValues == {"", "hi"}
AttrNames == {"src"}
\* the attributes img can have: style is written by the image dialog only
ImgAttrNames == AttrNames \cup {"style"}
\* values of the width and height fields of the image dialog ("" is none)
Sizes == {"", "50%"}
\* values an attribute is set to ("" is an empty attribute)
AttrValues == {"", "a"}

\* what the <ncsedt-restorable> element holds: its child nodes.  "p>div" is a
\* div inside a p, as a script builds it with appendChild; "p,div,p" is three
\* siblings; "text:undefined" is the text undefined
Contents == {"i:load", "i:done", "empty", "p>div"}
RAttrNames == {"data-ncsedt-restorable", "class"}
\* values a script sets an attribute of the restorable element to
RAttrValues == {"true", "loaded"}

VARIABLES
    options,            \* this.options: usesLinearUndoHistory, mutationGroupingWindowMs (scaled),
                        \* and supplied, the window as it was given to the constructor
    editingEnabled,     \* this.editingEnabled (null counts as false)
    observing,          \* the MutationObserver is connected (observe() / disconnect())
    focusedElement,     \* this.focusedElement
    children,           \* child elements of ed, in sibling order
    nodeValue,          \* data of the text node t
    attributes,         \* attributes of img: name -> value or NULL
    pending,            \* mutation records queued by the platform, not yet delivered
    historyUndo,        \* this.historyUndo
    historyRedo,        \* this.historyRedo
    historyForce,       \* this.historyForce
    now,                \* last value returned by Date.now()
    tagContent,         \* child nodes of the <ncsedt-restorable> element
    elAttributes,       \* attributes of the [data-ncsedt-restorable] element
    restorable,         \* the ncsedtRestorable object: savedHTML, savedAttributes, undoHistory*
    lastOp,             \* the last operation: "undo", "redo", "capture", "restore",
                        \* "undoRestore", "editOn", "editOff", "getDocumentHTML",
                        \* "ncsedtRemover", or "other"
    threw,              \* the last operation ended with an uncaught exception
    applied,            \* records whose effect the last undo or redo applied, records the
                        \* last delivery pushed
    everForced,         \* every token ever passed to historyForcePush
    beforeRestore,      \* the restorable elements as they were when restore() was last called
    disabled,           \* button.disabled of the undo and redo buttons of the toolbar
    fired,              \* events the last operation dispatched on document, by name
    removables,         \* the <ncsedt-removable> elements of the document, in document order
    removableHtml,      \* this.removableHtml
    input,              \* the string handed to ncsedtRemover
    exported,           \* the string the last getDocumentHTML() or ncsedtRemover() returned
    steps,              \* the steps the last getDocumentHTML() performed, in order
    generation,         \* how many times the nodes inside the removable elements were
                        \* replaced by new ones while a record referred to one of them
    ncsedtRestorableObj, \* window.ncsedtRestorableObj: whether window has the property
                        \* (inWindow) and its value, <<>> for undefined or <<k>> for
                        \* the k-th store built
    constructed,        \* the stores new ncsedtRestorable() has built, as they were
                        \* built, in order
    editors             \* this.restorable of every editor instance, in order of
                        \* construction, as a position in constructed

vars == <<ncsedtRestorableObj, constructed, editors, options, editingEnabled, observing, focusedElement, children, nodeValue, attributes, pending, historyUndo, historyRedo, historyForce, now, tagContent, elAttributes, restorable, lastOp, threw, applied, everForced, beforeRestore, disabled, fired, removables, removableHtml, input, exported, steps, generation>>

\* ------------------------------------------------------------------------
\* Helpers on sequences
\* ------------------------------------------------------------------------
Last(s) == s[Len(s)]
Front(s) == SubSeq(s, 1, Len(s) - 1)
Range(s) == {s[i] : i \in 1..Len(s)}
Reverse(s) == [i \in 1..Len(s) |-> s[Len(s) + 1 - i]]
IndexOf(s, x) == CHOOSE i \in 1..Len(s) : s[i] = x /\ \A j \in 1..(i - 1) : s[j] # x
RemoveAt(s, i) == SubSeq(s, 1, i - 1) \o SubSeq(s, i + 1, Len(s))
Without(s, x) == IF x \in Range(s) THEN RemoveAt(s, IndexOf(s, x)) ELSE s
InsertAt(s, i, x) == SubSeq(s, 1, i - 1) \o <<x>> \o SubSeq(s, i, Len(s))

\* a rational num/den in units of 1/TIME_SCALE_FACTOR
FixedPoint(num, den) == (num * TIME_SCALE_FACTOR) \div den

\* ------------------------------------------------------------------------
\* Construction
\* ------------------------------------------------------------------------
\* options.mutationGroupingWindowMs as given to the constructor is <<>> when the
\* option is not given and <<w>> when it is given as w.
\* validateOptions: a truthy window is clamped to the minimum (0 and an absent
\* option are falsy and left alone)
validateOptions(w) ==
    IF w # <<>> /\ w[1] # 0
    THEN (IF w[1] > MIN_GROUPING_WINDOW_MS THEN w ELSE <<MIN_GROUPING_WINDOW_MS>>)
    ELSE w

\* the window is left in milliseconds
mergedWindowUnscaled(w) ==
    LET v == validateOptions(w)
        merged == IF v = <<>> THEN DefaultGroupingWindowMs ELSE v[1]
    IN FixedPoint(merged, 1)

\* deepMerge(defaults, options) for the window, then the division by
\* TIME_SCALE_FACTOR of the constructor
mergedWindow(w) ==
    LET v == validateOptions(w)
        merged == IF v = <<>> THEN DefaultGroupingWindowMs ELSE v[1]
    IN FixedPoint(merged, TIME_SCALE_FACTOR)

\* node.innerHTML read: the serialization of the child nodes
Serialize(content) ==
    CASE content = "i:load" -> "<i>load</i>"
      [] content = "i:done" -> "<i>done</i>"
      [] content = "empty" -> ""
      [] content = "p>div" -> "<p><div></div></p>"
      [] content = "p,div,p" -> "<p></p><div></div><p></p>"
      [] content = "text:undefined" -> "undefined"

\* node.innerHTML = html: the child nodes the HTML parser builds.  A div start
\* tag closes an open p, and the end tag of a p that is not open makes an empty
\* p; undefined is converted to the string "undefined"
Parse(html) ==
    CASE html = "<i>load</i>" -> "i:load"
      [] html = "<i>done</i>" -> "i:done"
      [] html = "" -> "empty"
      [] html = "<p><div></div></p>" -> "p,div,p"
      [] html = "<p></p><div></div><p></p>" -> "p,div,p"
      [] html = "undefined" -> "text:undefined"

\* new ncsedtRestorable(): the baseline is the state of the elements then; the
\* undo buffers are empty arrays (<<>>) until restore() fills them (<<value>>)
ncsedtRestorable(html, attrs) ==
    [savedHTML |-> html, savedAttributes |-> attrs,
     undoHistoryHTML |-> <<>>, undoHistoryAttributes |-> <<>>]

\* no event dispatched
NoEvents == [contentchanges |-> 0, editorchanges |-> 0]

hasUndoHistory(undo) == Len(undo) > 0

hasRedoHistory(redo) == Len(redo) > 0

isUndoButtonDisabled(enabled, undo) == ~enabled \/ ~hasUndoHistory(undo)

isRedoButtonDisabled(enabled, redo) == ~enabled \/ ~hasRedoHistory(redo)

\* the buttons follow the stacks only, not editing
setDisabledBtnsHistoryOnly(enabled, undo, redo) ==
    [undo |-> ~hasUndoHistory(undo), redo |-> ~hasRedoHistory(redo)]

\* the listener of editorchanges: every button of the toolbar takes the value of
\* its disabled() option; of the toolbar the model keeps the undo and the redo
\* button
setDisabledBtns(enabled, undo, redo) ==
    [undo |-> isUndoButtonDisabled(enabled, undo),
     redo |-> isRedoButtonDisabled(enabled, redo)]

\* the page and the fields of an editor after start(), for the options and
\* the class attribute of the restorable element drawn from the given sets
InitPage(linears, windows, classes) ==
    /\ \E lin \in linears, w \in windows :
          options = [usesLinearUndoHistory |-> lin,
                     mutationGroupingWindowMs |-> mergedWindow(w),
                     supplied |-> w]
    /\ editingEnabled = FALSE
    /\ observing = FALSE
    /\ focusedElement = "ed"
    /\ children = <<"p", "img">>
    /\ nodeValue = ""
    /\ attributes = [n \in ImgAttrNames |-> NULL]
    /\ pending = <<>>
    /\ historyUndo = <<>>
    /\ historyRedo = <<>>
    /\ historyForce = <<>>
    /\ now = 0
    \* the elements are as the parser built them from the page
    /\ tagContent = Parse("<i>load</i>")
    /\ \E c \in classes :
          elAttributes = [n \in RAttrNames |->
                             IF n = "data-ncsedt-restorable" THEN "true" ELSE c]
    /\ lastOp = "other"
    /\ threw = FALSE
    /\ applied = 0
    /\ everForced = {}
    /\ beforeRestore = <<>>
    \* start() renders the toolbar after editOff()
    /\ disabled = setDisabledBtns(FALSE, <<>>, <<>>)
    /\ fired = NoEvents
    /\ removableHtml = <<>>
    /\ exported = <<>>
    /\ steps = <<>>
    /\ generation = 0

\* `var ncsedtRestorableObj` at the top level of a script: the declaration is
\* instantiated before the first statement runs and gives window the property,
\* undefined, unless window has it already
declareVar(property) ==
    IF property.inWindow THEN property ELSE [inWindow |-> TRUE, value |-> <<>>]

\* the state after the script was loaded, new ncSimpleHtmlEditor(options) and
\* start(): the page is as it was when the script was loaded
InitWith(linears, windows, classes) ==
    /\ InitPage(linears, windows, classes)
    /\ restorable = ncsedtRestorable(Serialize(tagContent), elAttributes)
    \* the script declared the global and left it undefined; the constructor
    \* of the editor built the store
    /\ ncsedtRestorableObj = declareVar([inWindow |-> FALSE, value |-> <<>>])
    /\ constructed = <<restorable>>
    /\ editors = <<1>>

\* ------------------------------------------------------------------------
\* The document and the mutation records the platform queues
\* ------------------------------------------------------------------------
\* a MutationRecord as the platform queues it.  written is not a field of the
\* platform's record: for an attributes record it is the value the mutation
\* wrote (NULL for a removal), kept to tell which write a record stands for.
MutationRecord(type, target, attributeName, oldValue, addedNodes, removedNodes, nextSibling, written) ==
    [type |-> type, target |-> target, attributeName |-> attributeName,
     oldValue |-> oldValue, addedNodes |-> addedNodes, removedNodes |-> removedNodes,
     nextSibling |-> nextSibling, written |-> written]

\* The restorable and the removable elements are in the body of the page, and
\* wrapEditable moves every node of the body into this.editable: "rs" is the
\* <ncsedt-restorable> element, "el" the [data-ncsedt-restorable] element, and
\* "rm1", "rm2", ... are the <ncsedt-removable> elements in document order.
\* No code removes these elements from the document.
Digits == <<"1", "2", "3", "4", "5", "6", "7", "8", "9">>

RemovableElement(i) == "rm" \o Digits[i]

\* the <ncsedt-removable> element nested in the i-th
NestedRemovable(i) == RemovableElement(i) \o ">rm"

\* the text node of the i-th removable element.  A text node the HTML parser
\* builds in its place is another node: g tells them apart
RemovableTextNode(i, g) == RemovableElement(i) \o "#text" \o Digits[g + 1]

MarkedElements == {"rs", "el"} \cup {RemovableElement(i) : i \in 1..Len(removables)}

\* the text nodes that are in the removable elements now
CurrentTextNodes ==
    {RemovableTextNode(i, generation) : i \in {j \in 1..Len(removables) : removables[j].text # ""}}

\* the element e is in the document (a child of ed)
Attached(kids, e) == e = "ed" \/ e \in Range(kids) \/ e \in MarkedElements

\* the observer is connected and the node is in the subtree of this.editable,
\* or was removed from it since the last delivery (the platform keeps observing
\* a removed subtree until the callback is next invoked)
Observed(target) ==
    LET element == IF target = "t" THEN "p" ELSE target
    IN /\ observing
       /\ \/ Attached(children, element)
          \/ target \in CurrentTextNodes
          \/ \E i \in 1..Len(pending) : element \in Range(pending[i].removedNodes)

\* room for one more record within the bounds of the model
Room ==
    /\ Len(pending) < MaxPending
    /\ Len(historyUndo) + Len(historyRedo) + Len(pending) < MaxRecords

Queue(target, record) == IF Observed(target) THEN Append(pending, record) ELSE pending

\* what an edit of the document leaves alone
otherVarsOfEdit == <<ncsedtRestorableObj, constructed, editors, options, editingEnabled, observing, focusedElement, historyUndo, historyRedo, historyForce, now, tagContent, elAttributes, restorable, everForced, beforeRestore, removables, removableHtml, input, exported, steps, generation>>

\* an operation other than undo, redo, capture, restore and undoRestore ends
\* without exception and dispatches no event
Other ==
    /\ lastOp' = "other"
    /\ threw' = FALSE
    /\ applied' = 0
    /\ fired' = NoEvents
    /\ UNCHANGED disabled

\* the user types in (or a script writes) the text node
setNodeValue(v) ==
    /\ v # nodeValue
    /\ Room
    /\ nodeValue' = v
    /\ pending' = Queue("t", MutationRecord("characterData", "t", NULL, nodeValue,
                                            <<>>, <<>>, NULL, NULL))
    /\ Other
    /\ UNCHANGED <<children, attributes>>
    /\ UNCHANGED otherVarsOfEdit

\* img.setAttribute(name, value), by the editor or by any script of the page
setAttribute(name, v) ==
    /\ Room
    /\ attributes' = [attributes EXCEPT ![name] = v]
    /\ pending' = Queue("img", MutationRecord("attributes", "img", name, attributes[name],
                                              <<>>, <<>>, NULL, v))
    /\ Other
    /\ UNCHANGED <<children, nodeValue>>
    /\ UNCHANGED otherVarsOfEdit

\* img.removeAttribute(name); removing an absent attribute queues nothing
removeAttribute(name) ==
    /\ attributes[name] # NULL
    /\ Room
    /\ attributes' = [attributes EXCEPT ![name] = NULL]
    /\ pending' = Queue("img", MutationRecord("attributes", "img", name, attributes[name],
                                              <<>>, <<>>, NULL, NULL))
    /\ Other
    /\ UNCHANGED <<children, nodeValue>>
    /\ UNCHANGED otherVarsOfEdit

\* the sibling after e in ed, NULL for the last child
NextSiblingOf(kids, e) ==
    LET i == IndexOf(kids, e) IN IF i < Len(kids) THEN kids[i + 1] ELSE NULL

\* ed.removeChild(e)
removeChild(e) ==
    /\ e \in Range(children)
    /\ Room
    /\ children' = Without(children, e)
    /\ pending' = Queue("ed", MutationRecord("childList", "ed", NULL, NULL, <<>>, <<e>>,
                                             NextSiblingOf(children, e), NULL))
    /\ Other
    /\ UNCHANGED <<nodeValue, attributes>>
    /\ UNCHANGED otherVarsOfEdit

\* node inserted before ref in kids, appended when ref is NULL; a node that is
\* already a child is moved
InsertBefore(kids, node, ref) ==
    LET rest == Without(kids, node)
    IN IF ref = NULL THEN Append(rest, node)
       ELSE IF ref = node THEN kids
       ELSE InsertAt(rest, IndexOf(rest, ref), node)

\* ed.insertBefore(e, ref) of a node that is not in the document
insertBefore(e, ref) ==
    /\ e \notin Range(children)
    /\ ref = NULL \/ ref \in Range(children)
    /\ Room
    /\ children' = InsertBefore(children, e, ref)
    /\ pending' = Queue("ed", MutationRecord("childList", "ed", NULL, NULL, <<e>>, <<>>,
                                             ref, NULL))
    /\ Other
    /\ UNCHANGED <<nodeValue, attributes>>
    /\ UNCHANGED otherVarsOfEdit

\* ------------------------------------------------------------------------
\* Force-authorization list
\* ------------------------------------------------------------------------
\* attr + ':' + val.toString()
Token(attr, val) == attr \o ":" \o val

historyForcePush(attr, val) ==
    /\ Len(historyForce) < MaxForce
    /\ historyForce' = Append(historyForce, Token(attr, val))
    /\ everForced' = everForced \cup {Token(attr, val)}
    /\ Other
    /\ UNCHANGED <<ncsedtRestorableObj, constructed, editors, options, editingEnabled, observing, focusedElement, children, nodeValue, attributes, pending, historyUndo, historyRedo, now, tagContent, elAttributes, restorable, beforeRestore, removables, removableHtml, input, exported, steps, generation>>

\* val || '' : null and '' both give ''
OrEmpty(val) == IF val = NULL THEN "" ELSE val

historyForceCheck(force, attr, val) == Token(attr, OrEmpty(val)) \in Range(force)

\* the list after historyForceRemove(attr, val), for val not null (val.toString()
\* raises a TypeError for null: see forEachMutation)
historyForceRemove(force, attr, val) == Without(force, Token(attr, val))

\* ------------------------------------------------------------------------
\* Capture: the MutationObserver callback of setObserver
\* ------------------------------------------------------------------------
\* the record as it is once the callback has set mutation.time and, for
\* characterData and attributes, mutation.newValue
ChangeRecord(m, newValue, time) ==
    [type |-> m.type, target |-> m.target, attributeName |-> m.attributeName,
     oldValue |-> m.oldValue, newValue |-> newValue, addedNodes |-> m.addedNodes,
     removedNodes |-> m.removedNodes, nextSibling |-> m.nextSibling,
     time |-> time, written |-> m.written]

\* focusedElement.contains(target), on the document as it is now
contains(kids, focused, target) ==
    \/ focused = target
    \/ focused = "ed" /\ Attached(kids, target)
    \/ focused = "p" /\ target = "t"

\* document.head.contains(target): every node of the model is in the body
headContains(target) == FALSE

\* the redo stack is cleared whatever the mode
resetLinearHistoryAlways(s) ==
    IF Len(s.redo) # 0 THEN [s EXCEPT !.redo = <<>>] ELSE s

resetLinearHistory(s) ==
    IF Len(s.redo) # 0 /\ options.usesLinearUndoHistory THEN [s EXCEPT !.redo = <<>>] ELSE s

\* mutation.target.nodeValue of a text node: the text of p's text node, of a
\* text node that is in a removable element, or of one that was replaced, which
\* still holds what was last written to it
nodeValueOf(target) ==
    IF target = "t" THEN nodeValue
    ELSE IF \E i \in 1..Len(removables) : target = RemovableTextNode(i, generation) /\ removables[i].text # ""
    THEN removables[CHOOSE i \in 1..Len(removables) : target = RemovableTextNode(i, generation)].text
    ELSE LET writes == {i \in 1..Len(pending) : pending[i].target = target}
         IN pending[CHOOSE i \in writes : \A j \in writes : j <= i].written

\* mutation.target.getAttribute(name)
getAttribute(target, name) ==
    IF target = "el" THEN elAttributes[name] ELSE attributes[name]

\* one iteration of mutations.forEach; s holds the stacks, the force list,
\* whether an exception was raised and the number of records pushed
forEachMutation(m, time, s) ==
    CASE m.type = "characterData" ->
            resetLinearHistory([s EXCEPT !.undo = Append(@, ChangeRecord(m, nodeValueOf(m.target), time)),
                                         !.accepted = @ + 1])
      [] m.type = "attributes" ->
            LET attrName == m.attributeName
                attrValue == getAttribute(m.target, attrName)
                pushed == [s EXCEPT !.undo = Append(@, ChangeRecord(m, attrValue, time)),
                                    !.accepted = @ + 1]
            IN IF (contains(children, focusedElement, m.target) \/ headContains(m.target))
                  /\ historyForceCheck(s.force, attrName, attrValue)
               THEN IF attrValue = NULL
                    THEN [pushed EXCEPT !.threw = TRUE]
                    ELSE resetLinearHistory(
                            [pushed EXCEPT !.force = historyForceRemove(@, attrName, attrValue)])
               ELSE s
      [] m.type = "childList" ->
            resetLinearHistory([s EXCEPT !.undo = Append(@, ChangeRecord(m, NULL, time)),
                                         !.accepted = @ + 1])

RECURSIVE forEach(_, _, _)
forEach(batch, time, s) ==
    IF batch = <<>> \/ s.threw THEN s
    ELSE forEach(Tail(batch), time, forEachMutation(Head(batch), time, s))

\* this.ignoreMutations is read by the callback and never assigned
ignoreMutations == FALSE

\* the callback without the test of editingEnabled and ignoreMutations
MutationCallbackUnguarded(time) ==
    /\ pending # <<>>
    /\ time >= now
    /\ pending' = <<>>
    /\ lastOp' = "capture"
    /\ now' = time
    /\ LET s == forEach(pending, FixedPoint(time, TIME_SCALE_FACTOR),
                        [undo |-> historyUndo, redo |-> historyRedo,
                         force |-> historyForce, threw |-> FALSE, accepted |-> 0])
       IN /\ historyUndo' = s.undo
          /\ historyRedo' = s.redo
          /\ historyForce' = s.force
          /\ threw' = s.threw
          /\ applied' = s.accepted
          /\ fired' = [contentchanges |-> IF s.threw THEN s.accepted - 1 ELSE s.accepted,
                       editorchanges |-> IF s.threw THEN 0 ELSE 1]
          /\ disabled' = IF s.threw THEN disabled
                         ELSE setDisabledBtns(editingEnabled, s.undo, s.redo)
    /\ UNCHANGED <<ncsedtRestorableObj, constructed, editors, options, editingEnabled, observing, focusedElement, children, nodeValue, attributes, tagContent, elAttributes, restorable, everForced, beforeRestore, removables, removableHtml, input, exported, steps, generation>>

\* the platform delivers the queued records to the callback, when Date.now() is
\* time.  The callback reads Date.now() for every record of the batch; the
\* batch is handled within one value of the clock.
MutationCallback(time) ==
    /\ pending # <<>>
    /\ time >= now
    /\ pending' = <<>>
    /\ lastOp' = "capture"
    /\ IF ~editingEnabled \/ ignoreMutations
       THEN /\ threw' = FALSE
            /\ applied' = 0
            /\ fired' = NoEvents
            /\ UNCHANGED <<historyUndo, historyRedo, historyForce, now, disabled>>
       ELSE    /\ now' = time
               /\ LET s == forEach(pending, FixedPoint(time, TIME_SCALE_FACTOR),
                                   [undo |-> historyUndo, redo |-> historyRedo,
                                    force |-> historyForce, threw |-> FALSE, accepted |-> 0])
                  IN /\ historyUndo' = s.undo
                     /\ historyRedo' = s.redo
                     /\ historyForce' = s.force
                     /\ threw' = s.threw
                     /\ applied' = s.accepted
                     \* contentchanges follows every push but the one whose
                     \* historyForceRemove raised; editorchanges ends the callback
                     /\ fired' = [contentchanges |-> IF s.threw THEN s.accepted - 1
                                                                ELSE s.accepted,
                                  editorchanges |-> IF s.threw THEN 0 ELSE 1]
                     /\ disabled' = IF s.threw THEN disabled
                                    ELSE setDisabledBtns(editingEnabled, s.undo, s.redo)
    /\ UNCHANGED <<ncsedtRestorableObj, constructed, editors, options, editingEnabled, observing, focusedElement, children, nodeValue, attributes, tagContent, elAttributes, restorable, everForced, beforeRestore, removables, removableHtml, input, exported, steps, generation>>

\* ------------------------------------------------------------------------
\* Focus
\* ------------------------------------------------------------------------
\* element.isContentEditable: editOn makes ed editable, editOff makes every
\* element not editable, and an element out of the document inherits nothing
isContentEditable(kids, element) == editingEnabled /\ Attached(kids, element)

\* this.focusedElement after setFocus(element).  The class "focused" that
\* setFocus moves between elements is no attribute of the model: no token
\* authorizes a class, so the callback drops those records.
setFocus(kids, focused, element) ==
    IF ~editingEnabled THEN focused
    ELSE IF ~isContentEditable(kids, element) THEN focused
    ELSE element

\* ------------------------------------------------------------------------
\* Replay: undoredo
\* ------------------------------------------------------------------------
\* addNodes.forEach: insertBefore(node, nextSibling) on nextSibling's parent,
\* or target.appendChild(node); nextSibling.parentNode is null when nextSibling
\* is out of the document
RECURSIVE addNodesForEach(_, _, _)
addNodesForEach(nodes, nextSibling, s) ==
    IF nodes = <<>> \/ s.threw THEN s
    ELSE IF nextSibling # NULL /\ ~Attached(s.children, nextSibling)
    THEN [s EXCEPT !.threw = TRUE]
    ELSE addNodesForEach(Tail(nodes), nextSibling,
            [s EXCEPT !.children = InsertBefore(@, Head(nodes), nextSibling)])

\* removeNodes.forEach: node.parentNode.removeChild(node); parentNode is null
\* for a node that is out of the document
RECURSIVE removeNodesForEach(_, _)
removeNodesForEach(nodes, s) ==
    IF nodes = <<>> \/ s.threw THEN s
    ELSE IF ~Attached(s.children, Head(nodes))
    THEN [s EXCEPT !.threw = TRUE]
    ELSE removeNodesForEach(Tail(nodes), [s EXCEPT !.children = Without(@, Head(nodes))])

\* the text is set to the new value in both directions
textContentNew(undo, m) == m.newValue

\* undo ? mutation.oldValue : mutation.newValue
textContent(undo, m) == IF undo THEN m.oldValue ELSE m.newValue

\* the switch (mutation.type) of undoredo: the effect of one record on the
\* document and on the focus
applyMutation(undo, m, s) ==
    CASE m.type = "characterData" ->
            \* target.parentElement is p; p.parentElement is null when p is out of
            \* the document, and reading .parentElement of it raises
            IF ~Attached(s.children, "p") THEN [s EXCEPT !.threw = TRUE]
            ELSE [s EXCEPT !.focused = setFocus(s.children, @, "p"),
                           !.nodeValue = textContent(undo, m),
                           !.applied = @ + 1]
      [] m.type = "attributes" ->
            LET value == IF undo THEN m.oldValue ELSE m.newValue
            IN [s EXCEPT !.focused = setFocus(s.children, @, m.target),
                         !.attributes = [@ EXCEPT ![m.attributeName] = value],
                         !.applied = @ + 1]
      [] m.type = "childList" ->
            LET addNodes == IF undo THEN m.removedNodes ELSE m.addedNodes
                removeNodes == IF undo THEN m.addedNodes ELSE m.removedNodes
                focus == [s EXCEPT !.focused = setFocus(s.children, @, m.target)]
                done == removeNodesForEach(removeNodes,
                            addNodesForEach(addNodes, m.nextSibling, focus))
            IN IF done.threw THEN done ELSE [done EXCEPT !.applied = @ + 1]

\* previousTime && ... : null and 0 are falsy
Truthy(previousTime) == previousTime # <<>> /\ previousTime[1] # 0

\* the window is subtracted where it is added
endGroupSignError(undo, m, previousTime) ==
    /\ Truthy(previousTime)
    /\ IF undo
       THEN m.time - options.mutationGroupingWindowMs < previousTime[1]
       ELSE m.time - options.mutationGroupingWindowMs > previousTime[1]

\* undo uses the test of redo
endGroupRedoTest(undo, m, previousTime) ==
    /\ Truthy(previousTime)
    /\ m.time - options.mutationGroupingWindowMs > previousTime[1]

\* the test that ends the group
endGroup(undo, m, previousTime) ==
    /\ Truthy(previousTime)
    /\ IF undo
       THEN m.time + options.mutationGroupingWindowMs < previousTime[1]
       ELSE m.time - options.mutationGroupingWindowMs > previousTime[1]

\* while (groupingByTime): source is the stack popped (historyUndo for undo),
\* dest the stack pushed.  previousTime is <<>> for null.
RECURSIVE whileGrouping(_, _)
\* the loop without the test of an empty stack: pop() gives undefined and
\* reading mutation.time raises
whileGroupingNoEmptyCheck(undo, s) ==
    IF s.source = <<>> THEN [s EXCEPT !.threw = TRUE]
    ELSE LET mutation == Last(s.source)
             moved == [s EXCEPT !.source = Front(@), !.dest = Append(@, mutation)]
         IN IF endGroup(undo, mutation, s.previousTime) THEN s
            ELSE LET done == applyMutation(undo, mutation, moved)
                 IN IF done.threw THEN done
                    ELSE whileGrouping(undo, [done EXCEPT !.previousTime = <<mutation.time>>])

\* the loop when the end of a group puts the record back on the source stack
\* and leaves it on the destination stack too
whileGroupingNoPop(undo, s) ==
    IF s.source = <<>> THEN s
    ELSE LET mutation == Last(s.source)
             moved == [s EXCEPT !.source = Front(@), !.dest = Append(@, mutation)]
         IN IF endGroup(undo, mutation, s.previousTime)
            THEN [s EXCEPT !.dest = Append(@, mutation)]
            ELSE LET done == applyMutation(undo, mutation, moved)
                 IN IF done.threw THEN done
                    ELSE whileGrouping(undo, [done EXCEPT !.previousTime = <<mutation.time>>])

\* the loop when the end of a group pushes the record on the source stack
\* without having popped it
whileGroupingPushTwice(undo, s) ==
    IF s.source = <<>> THEN s
    ELSE LET mutation == Last(s.source)
             moved == [s EXCEPT !.source = Front(@), !.dest = Append(@, mutation)]
         IN IF endGroup(undo, mutation, s.previousTime)
            THEN [s EXCEPT !.source = Append(@, mutation)]
            ELSE LET done == applyMutation(undo, mutation, moved)
                 IN IF done.threw THEN done
                    ELSE whileGrouping(undo, [done EXCEPT !.previousTime = <<mutation.time>>])

whileGrouping(undo, s) ==
    IF s.source = <<>> THEN s
    ELSE LET mutation == Last(s.source)
             moved == [s EXCEPT !.source = Front(@), !.dest = Append(@, mutation)]
         IN IF endGroup(undo, mutation, s.previousTime) THEN s
            ELSE LET done == applyMutation(undo, mutation, moved)
                 IN IF done.threw THEN done
                    ELSE whileGrouping(undo, [done EXCEPT !.previousTime = <<mutation.time>>])

undoredo(undo) ==
    LET source == IF undo THEN historyUndo ELSE historyRedo
        dest == IF undo THEN historyRedo ELSE historyUndo
        s == whileGrouping(undo,
                [source |-> source, dest |-> dest, children |-> children,
                 nodeValue |-> nodeValue, attributes |-> attributes,
                 focused |-> focusedElement, previousTime |-> <<>>,
                 threw |-> FALSE, applied |-> 0])
    IN /\ historyUndo' = (IF undo THEN s.source ELSE s.dest)
       /\ historyRedo' = (IF undo THEN s.dest ELSE s.source)
       /\ children' = s.children
       /\ nodeValue' = s.nodeValue
       /\ attributes' = s.attributes
       /\ focusedElement' = s.focused
       /\ threw' = s.threw
       /\ applied' = s.applied
       \* this.observer.disconnect() drops the queued records; this.observe() is
       \* reached only when no record raised
       /\ pending' = <<>>
       /\ observing' = ~s.threw
       \* both events are dispatched once, after the loop
       /\ fired' = IF s.threw THEN NoEvents ELSE [contentchanges |-> 1, editorchanges |-> 1]
       /\ disabled' = IF s.threw THEN disabled
                      ELSE setDisabledBtns(editingEnabled,
                                           IF undo THEN s.source ELSE s.dest,
                                           IF undo THEN s.dest ELSE s.source)
       /\ UNCHANGED <<ncsedtRestorableObj, constructed, editors, options, editingEnabled, historyForce, now, tagContent, elAttributes, restorable, everForced, beforeRestore, removables, removableHtml, input, exported, steps, generation>>

Undo ==
    /\ undoredo(TRUE)
    /\ lastOp' = "undo"

Redo ==
    /\ undoredo(FALSE)
    /\ lastOp' = "redo"

\* ------------------------------------------------------------------------
\* Editing on and off, focus by click
\* ------------------------------------------------------------------------
editOn ==
    /\ editingEnabled' = TRUE
    /\ observing' = TRUE
    /\ lastOp' = "editOn"
    /\ threw' = FALSE
    /\ applied' = 0
    /\ fired' = [contentchanges |-> 0, editorchanges |-> 1]
    /\ disabled' = setDisabledBtns(TRUE, historyUndo, historyRedo)
    /\ UNCHANGED <<ncsedtRestorableObj, constructed, editors, options, focusedElement, children, nodeValue, attributes, pending, historyUndo, historyRedo, historyForce, now, tagContent, elAttributes, restorable, everForced, beforeRestore, removables, removableHtml, input, exported, steps, generation>>

editOff ==
    /\ observing' = FALSE
    /\ pending' = <<>>
    /\ editingEnabled' = FALSE
    /\ lastOp' = "editOff"
    /\ threw' = FALSE
    /\ applied' = 0
    /\ fired' = [contentchanges |-> 0, editorchanges |-> 1]
    /\ disabled' = setDisabledBtns(FALSE, historyUndo, historyRedo)
    /\ UNCHANGED <<ncsedtRestorableObj, constructed, editors, options, focusedElement, children, nodeValue, attributes, historyUndo, historyRedo, historyForce, now, tagContent, elAttributes, restorable, everForced, beforeRestore, removables, removableHtml, input, exported, steps, generation>>

\* the click listener of setEvents
click(element) ==
    /\ focusedElement # element
    /\ Attached(children, element)
    /\ focusedElement' = setFocus(children, focusedElement, element)
    /\ Other
    /\ UNCHANGED <<ncsedtRestorableObj, constructed, editors, options, editingEnabled, observing, children, nodeValue, attributes, pending, historyUndo, historyRedo, historyForce, now, tagContent, elAttributes, restorable, everForced, beforeRestore, removables, removableHtml, input, exported, steps, generation>>

\* ------------------------------------------------------------------------
\* The image dialog: editImageConfirmExisting
\* ------------------------------------------------------------------------
\* element.style is a list of declarations, in the order they were set
WidthOf(w) == "width: " \o w \o ";"
HeightOf(h) == "height: " \o h \o ";"
IsWidth(decl) == decl \in {WidthOf(w) : w \in Sizes}
IsHeight(decl) == decl \in {HeightOf(h) : h \in Sizes}
IsProperty(property, decl) == IF property = "width" THEN IsWidth(decl) ELSE IsHeight(decl)

\* style.cssText: the declarations, a space between them
RECURSIVE cssText(_)
cssText(decls) ==
    IF decls = <<>> THEN ""
    ELSE IF Len(decls) = 1 THEN decls[1]
    ELSE decls[1] \o " " \o cssText(Tail(decls))

\* the declarations of img, read from its style attribute
StyleLists ==
    LET W == {WidthOf(w) : w \in Sizes \ {""}}
        H == {HeightOf(h) : h \in Sizes \ {""}}
    IN {<<>>} \cup {<<w>> : w \in W} \cup {<<h>> : h \in H}
       \cup {<<w, h>> : w \in W, h \in H} \cup {<<h, w>> : w \in W, h \in H}

style(value) ==
    IF value = NULL THEN <<>> ELSE CHOOSE decls \in StyleLists : cssText(decls) = value

\* style.width and style.height read
styleWidth(decls) ==
    IF \E i \in 1..Len(decls) : IsWidth(decls[i])
    THEN CHOOSE w \in Sizes : WidthOf(w) \in Range(decls) ELSE ""

styleHeight(decls) ==
    IF \E i \in 1..Len(decls) : IsHeight(decls[i])
    THEN CHOOSE h \in Sizes : HeightOf(h) \in Range(decls) ELSE ""

\* style.width = w: the empty string removes the declaration, a new property
\* is appended, a property that is set keeps its place
setStyle(decls, property, decl, empty) ==
    IF empty THEN SelectSeq(decls, LAMBDA d : ~IsProperty(property, d))
    ELSE IF \E i \in 1..Len(decls) : IsProperty(property, decls[i])
    THEN [i \in 1..Len(decls) |-> IF IsProperty(property, decls[i]) THEN decl ELSE decls[i]]
    ELSE Append(decls, decl)

\* the user confirms the dialog of the focused image with a new width and a new
\* height, the other fields as they were: each style property that changed is
\* written and the style attribute as it is then is authorized
editImageConfirmExisting(newwidth, newheight) ==
    LET old == style(attributes["style"])
        changesWidth == styleWidth(old) # newwidth
        changesHeight == styleHeight(old) # newheight
        withWidth == IF changesWidth THEN setStyle(old, "width", WidthOf(newwidth), newwidth = "")
                     ELSE old
        withHeight == IF changesHeight
                      THEN setStyle(withWidth, "height", HeightOf(newheight), newheight = "")
                      ELSE withWidth
        valueAfterWidth == IF changesWidth THEN cssText(withWidth) ELSE attributes["style"]
        widthRecord == MutationRecord("attributes", "img", "style", attributes["style"],
                                      <<>>, <<>>, NULL, cssText(withWidth))
        heightRecord == MutationRecord("attributes", "img", "style", valueAfterWidth,
                                       <<>>, <<>>, NULL, cssText(withHeight))
        records == (IF changesWidth THEN <<widthRecord>> ELSE <<>>) \o
                   (IF changesHeight THEN <<heightRecord>> ELSE <<>>)
        tokens == (IF changesWidth THEN <<Token("style", cssText(withWidth))>> ELSE <<>>) \o
                  (IF changesHeight THEN <<Token("style", cssText(withHeight))>> ELSE <<>>)
    IN /\ editingEnabled
       /\ focusedElement = "img"
       \* the click that confirms the dialog is a task of its own: the platform
       \* has delivered the records queued before it
       /\ pending = <<>>
       /\ records # <<>>
       /\ Len(pending) + Len(records) <= MaxPending
       /\ Len(historyUndo) + Len(historyRedo) + Len(pending) + Len(records) <= MaxRecords
       /\ Len(historyForce) + Len(tokens) <= MaxForce
       /\ attributes' = [attributes EXCEPT !["style"] = cssText(withHeight)]
       /\ pending' = IF Observed("img") THEN pending \o records ELSE pending
       /\ historyForce' = historyForce \o tokens
       /\ everForced' = everForced \cup Range(tokens)
       /\ Other
       /\ UNCHANGED <<ncsedtRestorableObj, constructed, editors, options, editingEnabled, observing, focusedElement, children, nodeValue, historyUndo, historyRedo, now, tagContent, elAttributes, restorable, beforeRestore, removables, removableHtml, input, exported, steps, generation>>

\* ------------------------------------------------------------------------
\* The restorable store
\* ------------------------------------------------------------------------
\* the child nodes of the <ncsedt-restorable> element, named by what they hold
ContentNodes(content) == IF content = "empty" THEN <<>> ELSE <<content>>

\* the record of target.innerHTML = ...: the children old are removed and the
\* children new are added; nothing is recorded when there are none of either
replaceChildren(target, old, new) ==
    IF old = <<>> /\ new = <<>> THEN <<>>
    ELSE <<MutationRecord("childList", target, NULL, NULL, new, old, NULL, NULL)>>

\* the attributes of the [data-ncsedt-restorable] element in the order of the
\* start tag
RAttrOrder == <<"class", "data-ncsedt-restorable">>

\* the names of RAttrOrder that values gives a value
NamesWithValue(values) ==
    LET Has(n) == values[n] # NULL IN SelectSeq(RAttrOrder, Has)

\* the records of removeAttribute for every attribute of the element
removeAttributeRecords(current) ==
    LET names == NamesWithValue(current)
    IN [i \in 1..Len(names) |->
           MutationRecord("attributes", "el", names[i], current[names[i]], <<>>, <<>>, NULL, NULL)]

\* the records of setAttribute for every attribute of values, on an element
\* whose attributes are current
setAttributeRecords(current, values) ==
    LET names == NamesWithValue(values)
    IN [i \in 1..Len(names) |->
           MutationRecord("attributes", "el", names[i], current[names[i]], <<>>, <<>>, NULL,
                          values[names[i]])]

\* the records restore() gives the observer
restoreRecords(content, current, store) ==
    replaceChildren("rs", ContentNodes(content), ContentNodes(Parse(store.savedHTML)))
    \o removeAttributeRecords(current)
    \o setAttributeRecords([n \in RAttrNames |-> NULL], store.savedAttributes)

\* the records undoRestore() gives the observer
undoRestoreRecords(content, current, store) ==
    IF store.undoHistoryHTML = <<>>
    THEN replaceChildren("rs", ContentNodes(content), ContentNodes(Parse("undefined")))
    ELSE replaceChildren("rs", ContentNodes(content),
                         ContentNodes(Parse(store.undoHistoryHTML[1])))
         \o setAttributeRecords(current, store.undoHistoryAttributes[1])

\* the queue of the observer after writes that give it records
Observe(records) == IF observing THEN pending \o records ELSE pending

\* what a call on the restorable store or an edit of a restorable element
\* leaves alone
editorVars == <<ncsedtRestorableObj, constructed, editors, options, editingEnabled, observing, focusedElement, children, nodeValue, attributes, historyUndo, historyRedo, historyForce, now, everForced, removables, removableHtml, input, exported, steps, generation>>

\* the saved attributes are set over the current ones, none is removed
restoredAttributesMerged(current, saved) ==
    [n \in RAttrNames |-> IF saved[n] # NULL THEN saved[n] ELSE current[n]]

\* the attributes of the element after restore(): every current attribute is
\* removed, then every saved attribute is set
restoredAttributes(current, saved) ==
    LET removed == [n \in RAttrNames |-> NULL]
    IN [n \in RAttrNames |-> IF saved[n] # NULL THEN saved[n] ELSE removed[n]]

restore ==
    /\ restorable' = [restorable EXCEPT !.undoHistoryHTML = <<Serialize(tagContent)>>,
                                        !.undoHistoryAttributes = <<elAttributes>>]
    /\ tagContent' = Parse(restorable.savedHTML)
    /\ elAttributes' = restoredAttributes(elAttributes, restorable.savedAttributes)
    /\ beforeRestore' = <<[innerHTML |-> Serialize(tagContent), attributes |-> elAttributes]>>
    /\ lastOp' = "restore"
    /\ threw' = FALSE
    /\ applied' = 0
    /\ fired' = [contentchanges |-> 0, editorchanges |-> 1]
    /\ disabled' = setDisabledBtns(editingEnabled, historyUndo, historyRedo)
    /\ pending' = Observe(restoreRecords(tagContent, elAttributes, restorable))
    /\ UNCHANGED editorVars

\* the attributes of the element after undoRestore(): every attribute of the
\* snapshot is set
undoRestoredAttributes(current, history) ==
    [n \in RAttrNames |-> IF history[n] # NULL THEN history[n] ELSE current[n]]

\* before any restore() the buffers are empty: innerHTML is set to undefined and
\* Array.prototype.slice.call(undefined) raises a TypeError
undoRestore ==
    /\ IF restorable.undoHistoryHTML = <<>>
       THEN /\ tagContent' = Parse("undefined")
            /\ threw' = TRUE
            /\ fired' = NoEvents
            /\ UNCHANGED <<elAttributes, disabled>>
       ELSE /\ tagContent' = Parse(restorable.undoHistoryHTML[1])
            /\ elAttributes' = undoRestoredAttributes(elAttributes, restorable.undoHistoryAttributes[1])
            /\ threw' = FALSE
            /\ fired' = [contentchanges |-> 0, editorchanges |-> 1]
            /\ disabled' = setDisabledBtns(editingEnabled, historyUndo, historyRedo)
    /\ lastOp' = "undoRestore"
    /\ applied' = 0
    /\ pending' = Observe(undoRestoreRecords(tagContent, elAttributes, restorable))
    /\ UNCHANGED <<restorable, beforeRestore>>
    /\ UNCHANGED editorVars

\* a script of the page (a plugin) changes the restorable elements
setContent(content) ==
    /\ content # tagContent
    /\ tagContent' = content
    /\ pending' = Observe(replaceChildren("rs", ContentNodes(tagContent), ContentNodes(content)))
    /\ Other
    /\ UNCHANGED <<elAttributes, restorable, beforeRestore>>
    /\ UNCHANGED editorVars

setRestorableAttribute(name, v) ==
    /\ elAttributes[name] # v
    /\ elAttributes' = [elAttributes EXCEPT ![name] = v]
    /\ pending' = Observe(<<MutationRecord("attributes", "el", name, elAttributes[name], <<>>, <<>>, NULL, v)>>)
    /\ Other
    /\ UNCHANGED <<tagContent, restorable, beforeRestore>>
    /\ UNCHANGED editorVars

removeRestorableAttribute(name) ==
    /\ elAttributes[name] # NULL
    /\ elAttributes' = [elAttributes EXCEPT ![name] = NULL]
    /\ pending' = Observe(<<MutationRecord("attributes", "el", name, elAttributes[name], <<>>, <<>>, NULL, NULL)>>)
    /\ Other
    /\ UNCHANGED <<tagContent, restorable, beforeRestore>>
    /\ UNCHANGED editorVars

\* ------------------------------------------------------------------------
\* Export: getDocumentHTML, removable, undoRemovable, ncsedtRemover
\* ------------------------------------------------------------------------
\* A string of HTML is a sequence of tokens: a tag, a comment, or a run of text
\* or of white space.  The regular expressions of ncsedtRemover match whole
\* tokens of the strings of the model.
\*
\* An <ncsedt-removable> element is [text, inner]: its text and, in inner, the
\* text of an <ncsedt-removable> element nested after that text (<<>> for
\* none).  The removable elements are kept apart from the restorable elements:
\* none is inside the other.
RemovableOpen == "<ncsedt-removable>"
RemovableClose == "</ncsedt-removable>"
EditableOpen == "<ncsedt-editable id=\"ncsedt-editable\" contenteditable=\"true\">"
EditableClose == "</ncsedt-editable>"
ImplementBefore == "<!-- ncsedt-implement:before -->"
ImplementBegin == "<!-- ncsedt-implement:begin -->"
ImplementEnd == "<!-- ncsedt-implement:end -->"
ContainerBegin == "<!-- ncsedt-container:begin -->"
ContainerEnd == "<!-- ncsedt-container:end -->"

\* a run of text as tokens: the empty text is no token
Text(text) == IF text = "" THEN <<>> ELSE <<text>>

EmptyBlock == [text |-> "", inner |-> <<>>]

\* node.innerHTML of a removable element
innerHTML(block) ==
    Text(block.text) \o
    (IF block.inner = <<>> THEN <<>>
     ELSE <<RemovableOpen>> \o Text(block.inner[1]) \o <<RemovableClose>>)

\* node.innerHTML = tokens, for the strings innerHTML gives
setInnerHTML(tokens) ==
    LET hasText == tokens # <<>> /\ Head(tokens) # RemovableOpen
        rest == IF hasText THEN Tail(tokens) ELSE tokens
    IN [text |-> IF hasText THEN Head(tokens) ELSE "",
        inner |-> IF rest = <<>> THEN <<>>
                  ELSE IF Len(rest) = 3 THEN <<rest[2]>> ELSE <<"">>]

\* the strings removable() saves: document.querySelectorAll gives the elements
\* in document order, a nested element after the one that holds it.  When its
\* turn comes the nested element is out of the document and still has its text.
RECURSIVE savedRemovableHtml(_)
savedRemovableHtml(blocks) ==
    IF blocks = <<>> THEN <<>>
    ELSE <<innerHTML(Head(blocks))>> \o
         (IF Head(blocks).inner = <<>> THEN <<>> ELSE <<Text(Head(blocks).inner[1])>>) \o
         savedRemovableHtml(Tail(blocks))

\* no element is emptied
removableNone(blocks) == [blocks |-> blocks, removableHtml |-> savedRemovableHtml(blocks)]

\* removable(): the elements of the document and this.removableHtml afterwards
removable(blocks) ==
    [blocks |-> [i \in 1..Len(blocks) |-> EmptyBlock],
     removableHtml |-> savedRemovableHtml(blocks)]

\* undoRemovable(): a new querySelectorAll; the i-th element of the document
\* gets the i-th saved string
undoRemovable(blocks, saved) ==
    [i \in 1..Len(blocks) |-> IF i <= Len(saved) THEN setInnerHTML(saved[i]) ELSE blocks[i]]

RECURSIVE serializeRemovables(_)
serializeRemovables(blocks) ==
    IF blocks = <<>> THEN <<>>
    ELSE <<RemovableOpen>> \o innerHTML(Head(blocks)) \o <<RemovableClose>> \o
         serializeRemovables(Tail(blocks))

\* the serialization of the children of ed
RECURSIVE serializeChildren(_, _, _)
serializeChildren(kids, text, attrs) ==
    IF kids = <<>> THEN <<>>
    ELSE (IF Head(kids) = "p" THEN <<"<p>">> \o Text(text) \o <<"</p>">>
          ELSE <<"<img" \o
                 (IF attrs["src"] = NULL THEN "" ELSE " src=\"" \o attrs["src"] \o "\"") \o
                 (IF attrs["style"] = NULL THEN "" ELSE " style=\"" \o attrs["style"] \o "\"") \o
                 ">">>) \o
         serializeChildren(Tail(kids), text, attrs)

\* the serialization of the [data-ncsedt-restorable] element
serializeElement(attrs) ==
    <<"<div" \o
      (IF attrs["data-ncsedt-restorable"] = NULL THEN ""
       ELSE " data-ncsedt-restorable=\"" \o attrs["data-ncsedt-restorable"] \o "\"") \o
      (IF attrs["class"] = NULL THEN "" ELSE " class=\"" \o attrs["class"] \o "\"") \o
      ">", "</div>">>

\* the content of <ncsedt-editable>: wrapEditable moved every node of the body
\* into it
editableInnerHTML(content, attrs, blocks, kids, text, imgAttrs) ==
    <<"<ncsedt-restorable>">> \o Text(Serialize(content)) \o <<"</ncsedt-restorable>">> \o
    serializeElement(attrs) \o
    serializeRemovables(blocks) \o
    serializeChildren(kids, text, imgAttrs)

\* new XMLSerializer().serializeToString(document): after the wrapper come the
\* nodes of implementToLastBody
serializeToString(content, attrs, blocks, kids, text, imgAttrs) ==
    <<"<html>", "<body>", EditableOpen>> \o
    editableInnerHTML(content, attrs, blocks, kids, text, imgAttrs) \o
    <<EditableClose, ImplementBegin, "<div id=\"ncsedt-implement\">", ContainerBegin,
      "<div id=\"ncsedt-container\">", "</div>", ContainerEnd, "</div>", ImplementEnd,
      "</body>", "</html>">>

\* the tokens each regular expression matches (the i flag: in any case)
IsSpace(tok) == tok \in {" ", "\n"}
ImplementBeforeTokens == {ImplementBefore, "<!--ncsedt-implement:before-->"}
ImplementBeginTokens == {ImplementBegin, "<!--ncsedt-implement:begin-->", "<!-- NCSEDT-IMPLEMENT:BEGIN -->"}
ImplementEndTokens == {ImplementEnd, "<!--ncsedt-implement:end-->", "<!-- NCSEDT-IMPLEMENT:END -->"}
ContainerBeginTokens == {ContainerBegin}
ContainerEndTokens == {ContainerEnd}
EditableCloseTokens == {EditableClose}
EditableTagTokens == {EditableOpen, "<ncsedt-editable>", EditableClose}

\* where the string has a token of the set
Positions(s, tokens) == {i \in 1..Len(s) : s[i] \in tokens}
Min(S) == CHOOSE i \in S : \A j \in S : i <= j
Max(S) == CHOOSE i \in S : \A j \in S : i >= j

\* s.replace(/<ncsedt-removable>\s*<\/ncsedt-removable>/gsi, ''): from left to
\* right, every open tag followed by white space only and a close tag
RECURSIVE replaceEmptyRemovable(_)
replaceEmptyRemovable(s) ==
    IF s = <<>> THEN <<>>
    ELSE IF Head(s) = RemovableOpen
            /\ \E j \in 2..Len(s) : /\ s[j] = RemovableClose
                                    /\ \A k \in 2..(j - 1) : IsSpace(s[k])
    THEN LET j == Min({k \in 2..Len(s) : s[k] = RemovableClose})
         IN replaceEmptyRemovable(SubSeq(s, j + 1, Len(s)))
    ELSE <<Head(s)>> \o replaceEmptyRemovable(Tail(s))

\* s.replace(/begin.*end/gsi, with): .* is greedy and, with the s flag, runs
\* over line ends: the match goes from the first begin to the last end after it
replaceSpan(s, beginTokens, endTokens, with) ==
    LET begins == Positions(s, beginTokens)
        first == Min(begins)
        ends == {j \in Positions(s, endTokens) : j > first}
    IN IF begins = {} \/ ends = {} THEN s
       ELSE SubSeq(s, 1, first - 1) \o with \o SubSeq(s, Max(ends) + 1, Len(s))

\* s.replace(/<\/?ncsedt-editable[^>]*>/gsi, '')
replaceEditableTags(s) == SelectSeq(s, LAMBDA tok : tok \notin EditableTagTokens)

\* the sentinels of the implement span are left in
ncsedtRemoverKeepsImplement(s) ==
    LET pass1 == replaceEmptyRemovable(s)
        pass2 == replaceSpan(pass1, ImplementBeforeTokens, EditableCloseTokens, <<EditableClose>>)
        pass4 == replaceSpan(pass2, ContainerBeginTokens, ContainerEndTokens, <<>>)
    IN replaceEditableTags(pass4)

\* every input gives the empty string
ncsedtRemoverEmpty(s) == SelectSeq(s, LAMBDA tok : FALSE)

\* ncsedtRemover(html): the five replacements, in order
ncsedtRemover(s) ==
    LET pass1 == replaceEmptyRemovable(s)
        pass2 == replaceSpan(pass1, ImplementBeforeTokens, EditableCloseTokens, <<EditableClose>>)
        pass3 == replaceSpan(pass2, ImplementBeginTokens, ImplementEndTokens, <<>>)
        pass4 == replaceSpan(pass3, ContainerBeginTokens, ContainerEndTokens, <<>>)
    IN replaceEditableTags(pass4)

\* the child nodes of the i-th removable element: its text node, then the
\* element nested in it
blockNodes(i, block, g) ==
    (IF block.text # "" THEN <<RemovableTextNode(i, g)>> ELSE <<>>)
    \o (IF block.inner # <<>> THEN <<NestedRemovable(i)>> ELSE <<>>)

\* the records removable() gives the observer, from the i-th element on: one
\* for every element that has child nodes, the nested element after the one
\* that holds it
RECURSIVE removableRecords(_, _, _)
removableRecords(blocks, i, g) ==
    IF i > Len(blocks) THEN <<>>
    ELSE replaceChildren(RemovableElement(i), blockNodes(i, blocks[i], g), <<>>)
         \o (IF blocks[i].inner # <<>> /\ blocks[i].inner[1] # ""
             THEN replaceChildren(NestedRemovable(i), <<NestedRemovable(i) \o "#text">>, <<>>)
             ELSE <<>>)
         \o removableRecords(blocks, i + 1, g)

\* the records undoRemovable() gives the observer, from the i-th element on,
\* for the elements as they are after it
RECURSIVE undoRemovableRecords(_, _, _)
undoRemovableRecords(blocks, i, g) ==
    IF i > Len(blocks) THEN <<>>
    ELSE replaceChildren(RemovableElement(i), <<>>, blockNodes(i, blocks[i], g))
         \o undoRemovableRecords(blocks, i + 1, g)

\* a record on a stack or in the queue refers to a text node that is in a
\* removable element now
TextNodeReferenced ==
    \E r \in Range(historyUndo \o historyRedo \o pending) : r.target \in CurrentTextNodes

\* the selectors getDocumentHTML is called with: none, the wrapper, and one
\* that matches no element
Selectors == {NULL, "#ncsedt-editable", "#missing"}

\* getDocumentHTML(selector).  document.querySelector gives null for a
\* selector that matches nothing, and reading .innerHTML of null raises: the
\* calls after it are not reached.
getDocumentHTML(selector) ==
    LET restored == Parse(restorable.savedHTML)
        restoredAttrs == restoredAttributes(elAttributes, restorable.savedAttributes)
        emptied == removable(removables)
        raised == selector = "#missing"
        refilled == undoRemovable(emptied.blocks, emptied.removableHtml)
        store == [restorable EXCEPT !.undoHistoryHTML = <<Serialize(tagContent)>>,
                                    !.undoHistoryAttributes = <<elAttributes>>]
        \* the text nodes of the removable elements are replaced by the nodes
        \* the parser builds
        parsed == IF CurrentTextNodes # {} /\ TextNodeReferenced
                  THEN generation + 1 ELSE generation
        records == restoreRecords(tagContent, elAttributes, restorable)
                   \o removableRecords(removables, 1, generation)
                   \o (IF raised THEN <<>>
                       ELSE undoRemovableRecords(refilled, 1, parsed)
                            \o undoRestoreRecords(restored, restoredAttrs, store))
        inner == editableInnerHTML(restored, restoredAttrs, emptied.blocks,
                                   children, nodeValue, attributes)
        serialized == IF selector = NULL
                      THEN serializeToString(restored, restoredAttrs, emptied.blocks,
                                             children, nodeValue, attributes)
                      ELSE inner
    IN /\ restorable' = store
       /\ pending' = Observe(records)
       /\ generation' = parsed
       /\ beforeRestore' = <<[innerHTML |-> Serialize(tagContent), attributes |-> elAttributes]>>
       /\ removableHtml' = emptied.removableHtml
       /\ IF raised
          THEN /\ tagContent' = restored
               /\ elAttributes' = restoredAttrs
               /\ removables' = emptied.blocks
               /\ steps' = <<"restore", "removable">>
               /\ fired' = [contentchanges |-> 0, editorchanges |-> 1]
               /\ UNCHANGED <<input, exported>>
          ELSE /\ tagContent' = Parse(Serialize(tagContent))
               /\ elAttributes' = undoRestoredAttributes(restoredAttrs, elAttributes)
               /\ removables' = refilled
               /\ steps' = <<"restore", "removable", "serialize", "undoRemovable",
                             "undoRestore", "ncsedtRemover">>
               /\ fired' = [contentchanges |-> 0, editorchanges |-> 2]
               /\ input' = serialized
               /\ exported' = ncsedtRemover(serialized)
       /\ disabled' = setDisabledBtns(editingEnabled, historyUndo, historyRedo)
       /\ lastOp' = "getDocumentHTML"
       /\ threw' = raised
       /\ applied' = 0
       /\ UNCHANGED <<ncsedtRestorableObj, constructed, editors, options, editingEnabled, observing, focusedElement, children, nodeValue, attributes, historyUndo, historyRedo, historyForce, now, everForced>>

\* the text of a removable element is set, by the user who types in it or by a
\* script of the page.  Under the observer the text node is the one written
\* to: it is neither created nor removed.
setRemovableText(i, text) ==
    /\ i \in 1..Len(removables)
    /\ removables[i].text # text
    /\ observing => (removables[i].text # "" /\ text # "" /\ Room)
    /\ removables' = [removables EXCEPT ![i].text = text]
    /\ pending' = Observe(<<MutationRecord("characterData", RemovableTextNode(i, generation), NULL, removables[i].text, <<>>, <<>>, NULL, text)>>)
    /\ Other
    /\ UNCHANGED <<ncsedtRestorableObj, constructed, editors, options, editingEnabled, observing, focusedElement, children, nodeValue, attributes, historyUndo, historyRedo, historyForce, now, everForced>>
    /\ UNCHANGED <<tagContent, elAttributes, restorable, beforeRestore, removableHtml, input, exported, steps, generation>>

\* ncsedtRemover(html) on the string input
ExportTransform ==
    /\ lastOp # "ncsedtRemover"
    /\ exported' = ncsedtRemover(input)
    /\ lastOp' = "ncsedtRemover"
    /\ threw' = FALSE
    /\ applied' = 0
    /\ fired' = NoEvents
    /\ UNCHANGED <<ncsedtRestorableObj, constructed, editors, options, editingEnabled, observing, focusedElement, children, nodeValue, attributes, pending, historyUndo, historyRedo, historyForce, now, everForced>>
    /\ UNCHANGED <<tagContent, elAttributes, restorable, beforeRestore, disabled, removables, removableHtml, input, steps, generation>>

\* ------------------------------------------------------------------------
\* Specifications
\* ------------------------------------------------------------------------
\* a page without removable elements, and no string handed to ncsedtRemover
NoExport ==
    /\ removables = <<>>
    /\ input = <<>>

\* records on the stacks and in the pending batch
Captured == Len(historyUndo) + Len(historyRedo) + Len(pending)

\* the text node is edited while editing is enabled
EditText ==
    /\ editingEnabled
    /\ \E v \in TextValues : setNodeValue(v)

\* p is removed and inserted, by the user or by a script of the page, whether
\* editing is enabled or not
EditStructure ==
    \/ \E e \in Elements : removeChild(e)
    \/ \E e \in Elements, ref \in {"img", NULL} : insertBefore(e, ref)

\* an attribute of img is written or removed, by the editor or by a script
EditAttribute ==
    \/ \E name \in AttrNames, v \in AttrValues : setAttribute(name, v)
    \/ \E name \in AttrNames : removeAttribute(name)

\* Replay: the history engine under edits of text and structure, in linear mode
\* with a window of 100 ms
Init ==
    /\ InitWith({TRUE}, {<<100>>}, {"preload"})
    /\ NoExport

Next ==
    \/ EditText
    \/ EditStructure
    \/ \E time \in Times : MutationCallback(time)
    \/ Undo
    \/ Redo
    \/ editOn
    \/ editOff

Spec == Init /\ [][Next]_vars

\* Replay of structure changes when the editor was constructed with a window
\* of 50 ms
InitWindow50 ==
    /\ InitWith({TRUE}, {<<50>>}, {"preload"})
    /\ NoExport

NextWindow50 ==
    \/ editingEnabled /\ EditStructure
    \/ \E time \in TimesWindow50 : MutationCallback(time)
    \/ Undo
    \/ Redo
    \/ editOn

SpecWindow50 == InitWindow50 /\ [][NextWindow50]_vars

\* Capture: every kind of edit and the authorization of an empty attribute
\* value, in linear and in non-linear mode with the default window
InitCapture ==
    /\ InitWith(BOOLEAN, {<<>>}, {"preload"})
    /\ NoExport

NextCapture ==
    \/ Captured < MaxCaptured /\ EditText
    \/ Captured < MaxCaptured /\ editingEnabled /\ EditStructure
    \/ Captured < MaxCaptured /\ EditAttribute
    \/ \E attr \in AttrNames : historyForcePush(attr, "")
    \/ \E time \in TimesCapture : MutationCallback(time)
    \/ Undo
    \/ Redo
    \/ editOn

SpecCapture == InitCapture /\ [][NextCapture]_vars

\* Authorization: attribute writes and removals, the force list, the focus and
\* batch deliveries
InitAuthorize ==
    /\ InitWith({TRUE}, {<<>>}, {"preload"})
    /\ NoExport

NextAuthorize ==
    \/ Captured < MaxCaptured /\ EditAttribute
    \/ \E attr \in AttrNames, val \in AttrValues : historyForcePush(attr, val)
    \/ \E time \in TimesAuthorize : MutationCallback(time)
    \/ editOn
    \/ \E element \in FocusTargets : click(element)

SpecAuthorize == InitAuthorize /\ [][NextAuthorize]_vars

\* The restorable store under scripts that change the restorable elements
InitRestore ==
    /\ InitWith({TRUE}, {<<>>}, {NULL, "preload"})
    /\ NoExport

NextRestore ==
    \/ restore
    \/ undoRestore
    \/ \E content \in Contents : setContent(content)
    \/ \E name \in RAttrNames, v \in RAttrValues : setRestorableAttribute(name, v)
    \/ \E name \in RAttrNames : removeRestorableAttribute(name)

SpecRestore == InitRestore /\ [][NextRestore]_vars

\* Export: getDocumentHTML on pages with removable elements, one of them
\* nested, under scripts that change the removable and the restorable elements
MaxBlocks == 2
RemovableTexts == {"", "r1", "r3"}
Blocks == {[text |-> "r1", inner |-> <<>>], [text |-> "r1", inner |-> <<"r2">>]}

InitExport ==
    /\ InitWith({TRUE}, {<<>>}, {"preload"})
    /\ removables \in UNION {[1..n -> Blocks] : n \in 0..MaxBlocks}
    /\ input = <<>>

NextExport ==
    \/ \E selector \in Selectors : getDocumentHTML(selector)
    \/ \E i \in 1..MaxBlocks, text \in RemovableTexts : setRemovableText(i, text)
    \/ \E content \in Contents : setContent(content)
    \/ restore
    \/ undoRestore

SpecExport == InitExport /\ [][NextExport]_vars

\* Export while editing: the text of the removable elements is edited under the
\* observer and the document is exported, each batch delivered before the
\* call of getDocumentHTML
MaxGeneration == 2

InitExportEditing ==
    /\ InitWith({TRUE}, {<<>>}, {"preload"})
    /\ removables \in {<<block>> : block \in Blocks}
    /\ input = <<>>

NextExportEditing ==
    \/ pending = <<>> /\ generation < MaxGeneration /\ Len(historyUndo) < MaxRecords
       /\ \E selector \in Selectors : getDocumentHTML(selector)
    \/ \E i \in 1..MaxBlocks, text \in RemovableTexts : setRemovableText(i, text)
    \/ \E time \in TimesAuthorize : MutationCallback(time)
    \/ editOn
    \/ editOff

SpecExportEditing == InitExportEditing /\ [][NextExportEditing]_vars

\* ncsedtRemover on every string of up to MaxTokens tokens
MaxTokens == 4
RemoverTokens == {"X", "Y", " ", "<!-- implement:begin -->", "<!-- implement:end -->", ImplementBefore, ImplementBegin, ImplementEnd, ContainerBegin, ContainerEnd, RemovableOpen, RemovableClose, EditableOpen, EditableClose}

InitRemover ==
    /\ InitWith({TRUE}, {<<>>}, {"preload"})
    /\ removables = <<>>
    /\ input \in UNION {[1..n -> RemoverTokens] : n \in 0..MaxTokens}

NextRemover == ExportTransform

SpecRemover == InitRemover /\ [][NextRemover]_vars

\* ncsedtRemover on strings with several implement spans and text around them
MaxSpanTokens == 5
SpanTokens == {"X", "Y", ImplementBegin, ImplementEnd}

InitSpans ==
    /\ InitWith({TRUE}, {<<>>}, {"preload"})
    /\ removables = <<>>
    /\ input \in UNION {[1..n -> SpanTokens] : n \in 0..MaxSpanTokens}

NextSpans == ExportTransform

SpecSpans == InitSpans /\ [][NextSpans]_vars

\* Loading: the script is loaded, scripts of the page change the restorable
\* elements, editors are constructed
MaxEditors == 2

\* no editor instance yet: there is no this.restorable
NoStore == [savedHTML |-> NULL, savedAttributes |-> <<>>, undoHistoryHTML |-> <<>>, undoHistoryAttributes |-> <<>>]

\* the script runs: if (!("ncsedtRestorableObj" in window)) { var
\* ncsedtRestorableObj = new ncsedtRestorable(); }
LoadScript ==
    /\ ~ncsedtRestorableObj.inWindow
    /\ LET declared == declareVar(ncsedtRestorableObj)
           store == ncsedtRestorable(Serialize(tagContent), elAttributes)
       IN IF ~declared.inWindow
          THEN /\ constructed' = Append(constructed, store)
               /\ ncsedtRestorableObj' = [inWindow |-> TRUE, value |-> <<Len(constructed')>>]
          ELSE /\ ncsedtRestorableObj' = declared
               /\ UNCHANGED constructed
    /\ lastOp' = "load"
    /\ UNCHANGED <<editors, restorable, tagContent, elAttributes, beforeRestore, pending, threw, applied, disabled, fired>>
    /\ UNCHANGED <<options, editingEnabled, observing, focusedElement, children, nodeValue, attributes, historyUndo, historyRedo, historyForce, now, everForced, removables, removableHtml, input, exported, steps, generation>>

\* new ncSimpleHtmlEditor(): this.restorable = window.ncsedtRestorableObj ||
\* new ncsedtRestorable(); the other fields get the values they have in the
\* initial state
NewEditor ==
    /\ ncsedtRestorableObj.inWindow
    /\ Len(editors) < MaxEditors
    /\ LET store == ncsedtRestorable(Serialize(tagContent), elAttributes)
       IN IF ncsedtRestorableObj.value # <<>>
          THEN /\ editors' = Append(editors, ncsedtRestorableObj.value[1])
               /\ restorable' = constructed[ncsedtRestorableObj.value[1]]
               /\ UNCHANGED constructed
          ELSE /\ constructed' = Append(constructed, store)
               /\ editors' = Append(editors, Len(constructed'))
               /\ restorable' = store
    /\ lastOp' = "new"
    /\ UNCHANGED <<ncsedtRestorableObj, tagContent, elAttributes, beforeRestore, pending, threw, applied, disabled, fired>>
    /\ UNCHANGED <<options, editingEnabled, observing, focusedElement, children, nodeValue, attributes, historyUndo, historyRedo, historyForce, now, everForced, removables, removableHtml, input, exported, steps, generation>>

InitLoad ==
    /\ InitPage({TRUE}, {<<>>}, {"preload"})
    /\ NoExport
    /\ ncsedtRestorableObj = [inWindow |-> FALSE, value |-> <<>>]
    /\ constructed = <<>>
    /\ editors = <<>>
    /\ restorable = NoStore

NextLoad ==
    \/ LoadScript
    \/ NewEditor
    \/ ncsedtRestorableObj.inWindow /\ \E content \in Contents : setContent(content)
    \/ ncsedtRestorableObj.inWindow /\ \E name \in RAttrNames, v \in RAttrValues : setRestorableAttribute(name, v)

SpecLoad == InitLoad /\ [][NextLoad]_vars

\* Construction with every kind of window: not given, 0, below the minimum, the
\* minimum, above it
Windows == {<<>>, <<0>>, <<50>>, <<100>>, <<300>>}

InitWindows ==
    /\ InitWith({TRUE}, Windows, {"preload"})
    /\ NoExport

NextWindows ==
    \/ editingEnabled /\ EditStructure
    \/ \E time \in TimesWindow50 : MutationCallback(time)
    \/ Undo
    \/ Redo
    \/ editOn

SpecWindows == InitWindows /\ [][NextWindows]_vars

\* The image dialog: the width and the height of the focused image are changed
InitDialog ==
    /\ InitWith({TRUE}, {<<>>}, {"preload"})
    /\ NoExport

NextDialog ==
    \/ \E newwidth \in Sizes, newheight \in Sizes : editImageConfirmExisting(newwidth, newheight)
    \/ \E time \in TimesAuthorize : MutationCallback(time)
    \/ editOn
    \/ \E element \in FocusTargets : click(element)

SpecDialog == InitDialog /\ [][NextDialog]_vars

\* The stacks in linear and in non-linear mode, under text edits captured at
\* several times
InitModes ==
    /\ InitWith(BOOLEAN, {<<>>}, {"preload"})
    /\ NoExport

NextModes ==
    \/ Captured < MaxCaptured /\ EditText
    \/ \E time \in Times : MutationCallback(time)
    \/ Undo
    \/ Redo
    \/ editOn

SpecModes == InitModes /\ [][NextModes]_vars

\* Structure: insertions and removals under the editable made while editing is
\* enabled, each batch delivered before undo() or redo() is called, with a
\* window of 50 ms
InitStructure ==
    /\ InitWith({TRUE}, {<<50>>}, {"preload"})
    /\ NoExport

NextStructure ==
    \/ editingEnabled /\ EditStructure
    \/ \E time \in TimesWindow50 : MutationCallback(time)
    \/ pending = <<>> /\ Undo
    \/ pending = <<>> /\ Redo
    \/ editOn

SpecStructure == InitStructure /\ [][NextStructure]_vars

TypeOK ==
    /\ editingEnabled \in BOOLEAN /\ observing \in BOOLEAN /\ threw \in BOOLEAN
    /\ focusedElement \in FocusTargets
    /\ generation \in 0..MaxGeneration
    /\ Len(historyForce) <= MaxForce
    /\ lastOp \in {"undo", "redo", "capture", "restore", "undoRestore", "editOn", "editOff",
                  "getDocumentHTML", "ncsedtRemover", "load", "new", "other"}
    /\ ncsedtRestorableObj.inWindow \in BOOLEAN
    /\ Len(ncsedtRestorableObj.value) <= 1
    /\ \A i \in 1..Len(editors) : editors[i] \in 1..Len(constructed)

\* ------------------------------------------------------------------------
\* Properties
\* ------------------------------------------------------------------------
\* t milliseconds as a timestamp of a record (Date.now() / TIME_SCALE_FACTOR)
Ms(t) == FixedPoint(t, TIME_SCALE_FACTOR)

\* the timestamps of the records of a stack, bottom first
TimesOf(stack) == [i \in 1..Len(stack) |-> stack[i].time]

KindsOf(stack) == {stack[i].type : i \in 1..Len(stack)}

\* the timestamps of the stack all lie within the grouping window of each other
WithinWindow(stack) ==
    \A i, j \in 1..Len(stack) : stack[i].time - stack[j].time <= options.mutationGroupingWindowMs

\* the undo stack holds N >= 1 records, all within the window of each other
GroupOnUndoStack == historyUndo # <<>> /\ WithinWindow(historyUndo)

\* this step moved the whole undo stack, top first, onto the redo stack and
\* applied every record of it to the document
AllReverted ==
    /\ historyUndo' = <<>>
    /\ historyRedo' = historyRedo \o Reverse(historyUndo)
    /\ applied' = Len(historyUndo)

\* C1, amended: when the N >= 1 records of the undo stack all lie within the
\* grouping window of each other and undo() raises no exception, a single
\* undo() reverts all N on the document, removes the N entries from the undo
\* stack and adds exactly those N to the redo stack.
C1_GroupRevertedUnlessRaised == [][(Undo /\ GroupOnUndoStack /\ ~threw') => AllReverted]_vars

\* C1 as stated: when the N >= 1 records of the undo stack all lie within the
\* grouping window of each other, a single undo() reverts all N on the
\* document and moves exactly those N entries from the undo stack to the redo
\* stack.
C1_GroupReverted == [][(Undo /\ GroupOnUndoStack) => AllReverted]_vars

\* an undo has reverted a group of two records with different timestamps
C1_Witness ==
    /\ lastOp = "undo" /\ ~threw /\ applied = 2
    /\ historyUndo = <<>>
    /\ TimesOf(historyRedo) = <<Ms(50), Ms(0)>>

\* the undo stack holds records at 0, 50 and 300 ms, pushed in that order, and
\* the window is 100 ms
C2_Scenario ==
    /\ TimesOf(historyUndo) = <<Ms(0), Ms(50), Ms(300)>>
    /\ options.mutationGroupingWindowMs = Ms(100)

\* C2, amended: with records at 0, 50 and 300 ms on the undo stack and a window
\* of 100 ms, a single undo() moves only the record at 300 to the redo stack
\* (and reverts it, unless applying it raises); the records at 0 and 50 stay on
\* the undo stack.
C2_OnlyLastReverted == [][(Undo /\ C2_Scenario) => (historyUndo' = SubSeq(historyUndo, 1, 2) /\ historyRedo' = historyRedo \o <<historyUndo[3]>> /\ applied' = (IF threw' THEN 0 ELSE 1))]_vars

\* C2 as stated: with records at 0, 50 and 300 ms on the undo stack and a window
\* of 100 ms, a single undo() reverts the records at 300 and 50 and leaves the
\* record at 0 on the undo stack.
C2_LastTwoReverted == [][(Undo /\ C2_Scenario) => (historyUndo' = SubSeq(historyUndo, 1, 1) /\ historyRedo' = historyRedo \o <<historyUndo[3], historyUndo[2]>>)]_vars

\* an undo has reverted the record at 300 of the three
C2_Witness ==
    /\ lastOp = "undo" /\ applied = 1
    /\ options.mutationGroupingWindowMs = Ms(100)
    /\ TimesOf(historyUndo) = <<Ms(0), Ms(50)>>
    /\ TimesOf(historyRedo) = <<Ms(300)>>

\* the editor was given a window of 50 ms and the undo stack holds three
\* structure changes at 0, 40 and 200 ms
C3_Scenario ==
    /\ options.supplied = <<50>>
    /\ TimesOf(historyUndo) = <<Ms(0), Ms(40), Ms(200)>>
    /\ KindsOf(historyUndo) = {"childList"}

\* C3, amended: with a window of 50 ms supplied and structure changes at 0, 40
\* and 200 ms on the undo stack, a single undo() moves only the record at 200
\* to the redo stack (and replays it, unless applying it raises); the records
\* at 0 and 40 remain on the undo stack.
C3_OnlyLastReplayed == [][(Undo /\ C3_Scenario) => (historyUndo' = SubSeq(historyUndo, 1, 2) /\ historyRedo' = historyRedo \o <<historyUndo[3]>> /\ applied' = (IF threw' THEN 0 ELSE 1))]_vars

\* C3 as stated: with a window of 50 ms supplied and structure changes at 0, 40
\* and 200 ms on the undo stack, a single undo() replays the records at 0 and
\* 40 as one group, and the record at 200 remains on the undo stack.
C3_FirstTwoReplayed == [][(Undo /\ C3_Scenario) => (historyUndo[3] \in Range(historyUndo') /\ historyUndo[1] \in Range(historyRedo') /\ historyUndo[2] \in Range(historyRedo'))]_vars

\* an undo has replayed the structure change at 200 of the three
C3_Witness ==
    /\ lastOp = "undo" /\ applied = 1
    /\ options.supplied = <<50>>
    /\ TimesOf(historyUndo) = <<Ms(0), Ms(40)>>
    /\ TimesOf(historyRedo) = <<Ms(200)>>
    /\ KindsOf(historyUndo \o historyRedo) = {"childList"}

\* the TextChange of the scenario: old value "", new value "hi", timestamp 0
C4_TextChange ==
    [type |-> "characterData", target |-> "t", attributeName |-> NULL, oldValue |-> "",
     newValue |-> "hi", addedNodes |-> <<>>, removedNodes |-> <<>>, nextSibling |-> NULL,
     time |-> Ms(0), written |-> NULL]

C4_Scenario == historyUndo = <<C4_TextChange>> /\ historyRedo = <<>>

\* the text is back to the old value and the record is on the redo stack
C4_Outcome ==
    /\ nodeValue' = ""
    /\ historyUndo' = <<>>
    /\ historyRedo' = <<C4_TextChange>>

\* C4, amended: starting with exactly one TextChange ("" to "hi", timestamp 0)
\* on the undo stack and an empty redo stack, and with the text node's parent
\* element in the document, undo() raises nothing, sets the text back to "",
\* leaves the undo stack empty and the redo stack holding exactly that record.
C4_TextRevertedWhenAttached == [][(Undo /\ C4_Scenario /\ Attached(children, "p")) => (C4_Outcome /\ ~threw')]_vars

\* C4 as stated: starting with exactly one TextChange ("" to "hi", timestamp 0)
\* on the undo stack and an empty redo stack, undo() sets the text back to "",
\* leaves the undo stack empty and the redo stack holding exactly that record.
C4_TextReverted == [][(Undo /\ C4_Scenario) => C4_Outcome]_vars

\* an undo has reverted the single TextChange
C4_Witness ==
    /\ lastOp = "undo" /\ ~threw /\ applied = 1
    /\ nodeValue = ""
    /\ historyUndo = <<>>
    /\ historyRedo = <<C4_TextChange>>

\* C9: undo() with an empty undo stack and redo() with an empty redo stack
\* raise no error and leave the undo stack, the redo stack and the content of
\* the document unchanged.
C9_EmptyStackNoOp == [][((Undo /\ historyUndo = <<>>) \/ (Redo /\ historyRedo = <<>>)) => (~threw' /\ UNCHANGED <<historyUndo, historyRedo, children, nodeValue, attributes>>)]_vars

\* a redo has found the redo stack empty, with a record on the undo stack and
\* an edited text
C9_Witness ==
    /\ lastOp = "redo" /\ ~threw /\ applied = 0
    /\ historyRedo = <<>>
    /\ historyUndo # <<>>
    /\ nodeValue = "hi"

\* this step is a delivery that pushed at least one record onto the undo stack
PushedOnCapture == lastOp' = "capture" /\ applied' > 0

\* C5: in linear mode, after a delivery that pushed a newly captured record
\* onto the undo stack the redo stack is empty, whatever it held before and
\* whatever the kind of the record.
C5_LinearPushClearsRedo == [][(PushedOnCapture /\ options.usesLinearUndoHistory) => historyRedo' = <<>>]_vars

\* C6: in non-linear mode, a delivery that pushes a newly captured record onto
\* the undo stack leaves a non-empty redo stack as it was: no entry removed,
\* none reordered.
C6_NonLinearPushKeepsRedo == [][(PushedOnCapture /\ ~options.usesLinearUndoHistory /\ historyRedo # <<>>) => historyRedo' = historyRedo]_vars

\* a delivery has pushed a record in non-linear mode while the redo stack held
\* a record
C6_Witness ==
    /\ lastOp = "capture" /\ applied > 0
    /\ ~options.usesLinearUndoHistory
    /\ historyRedo # <<>>

\* C7: every attributes record on the undo stack stands for a write (or a
\* removal, whose value counts as the empty string) of a pair (attributeName,
\* value) that was passed to historyForcePush at some time.
C7_OnlyAuthorizedRecorded == \A i \in 1..Len(historyUndo) : historyUndo[i].type = "attributes" => Token(historyUndo[i].attributeName, OrEmpty(historyUndo[i].written)) \in everForced

\* C8: restore() followed immediately by undoRestore() leaves the tag-mode
\* element with the innerHTML, and the attribute-mode element with exactly the
\* attributes (same names, same values, none extra), they had before restore().
C8_RestoreUndoRestoreRoundTrip == [][(lastOp = "restore" /\ lastOp' = "undoRestore") => (Serialize(tagContent') = beforeRestore[1].innerHTML /\ elAttributes' = beforeRestore[1].attributes)]_vars

\* C10: after restore() the tag-mode element's innerHTML is the baseline taken
\* at construction and the attribute-mode element's attributes are exactly the
\* baseline's: nothing added since is present, everything removed or changed
\* since has its baseline value.
C10_RestoreEqualsBaseline == lastOp = "restore" => (Serialize(tagContent) = restorable.savedHTML /\ restorable.savedHTML = "<i>load</i>" /\ elAttributes = restorable.savedAttributes /\ elAttributes["data-ncsedt-restorable"] = "true")

\* restore() has acted on elements whose content was changed, with an
\* attribute added since the baseline and an attribute of the baseline removed
C10_Witness ==
    /\ lastOp = "restore"
    /\ beforeRestore[1].innerHTML = "<i>done</i>"
    /\ restorable.savedAttributes["class"] = NULL
    /\ beforeRestore[1].attributes["class"] = "loaded"
    /\ beforeRestore[1].attributes["data-ncsedt-restorable"] = NULL

\* the texts of a removable element and of the element nested in it
ContentOf(block) == ({block.text} \cup Range(block.inner)) \ {""}

\* C11: the string getDocumentHTML() returns holds none of the content of any
\* removable element that was in the document when it was called
C11_NoRemovableContentExported == [][((\E selector \in Selectors : getDocumentHTML(selector)) /\ ~threw') => (\A i \in 1..Len(removables) : ContentOf(removables[i]) \cap Range(exported') = {})]_vars

\* a string was returned for a page with a removable element that holds a text
\* and a nested removable element, after a restore() without undoRestore()
C11_Witness ==
    /\ lastOp = "getDocumentHTML" /\ ~threw
    /\ exported # <<>>
    /\ \E i \in 1..Len(removables) : removables[i].text # "" /\ removables[i].inner # <<>>

\* C12: every getDocumentHTML() call performs restore(), the emptying of the
\* removable elements, the serialization, the restoration of the removable
\* elements, undoRestore() and ncsedtRemover, in this order and once each
C12_StepsInOrder ==
    lastOp = "getDocumentHTML" =>
        steps = <<"restore", "removable", "serialize", "undoRemovable", "undoRestore", "ncsedtRemover">>

\* C13 as stated: for the string <!-- implement:begin -->X<!-- implement:end -->Y
\* ncsedtRemover returns Y
C13_ImplementSpanRemoved ==
    (lastOp = "ncsedtRemover" /\ input = <<"<!-- implement:begin -->", "X", "<!-- implement:end -->", "Y">>)
        => exported = <<"Y">>

\* C13, amended: for the string
\* <!-- ncsedt-implement:begin -->X<!-- ncsedt-implement:end -->Y ncsedtRemover
\* returns Y
C13_NcsedtImplementSpanRemoved ==
    (lastOp = "ncsedtRemover" /\ input = <<ImplementBegin, "X", ImplementEnd, "Y">>)
        => exported = <<"Y">>

C13_Witness ==
    /\ lastOp = "ncsedtRemover"
    /\ input = <<ImplementBegin, "X", ImplementEnd, "Y">>
    /\ exported = <<"Y">>

\* the string holds no sentinel comment, no pair of removable tags and no tag
\* of the editable wrapper
NoMarker(s) ==
    /\ \A i \in 1..Len(s) :
          s[i] \notin (ImplementBeforeTokens \cup ImplementBeginTokens \cup ImplementEndTokens
                       \cup ContainerBeginTokens \cup ContainerEndTokens
                       \cup EditableTagTokens)
    /\ ~\E i, j \in 1..Len(s) : i < j /\ s[i] = RemovableOpen /\ s[j] = RemovableClose

\* C14: ncsedtRemover returns a string for every string, and returns a string
\* without sentinel comment, removable pair and wrapper tag unchanged
C14_TotalAndUnchangedWithoutMarkers ==
    lastOp = "ncsedtRemover" =>
        /\ ~threw
        /\ exported \in Seq(RemoverTokens)
        /\ NoMarker(input) => exported = input

C14_Witness ==
    /\ lastOp = "ncsedtRemover"
    /\ input = <<"X", RemovableOpen, " ", "Y">>
    /\ exported = input

\* a capture batch, an undo(), a redo(), an editOn() or an editOff() that ended
\* without exception
Completed ==
    /\ \/ \E time \in Times : MutationCallback(time)
       \/ Undo
       \/ Redo
       \/ editOn
       \/ editOff
    /\ ~threw'

\* C15: after every completed capture batch, undo(), redo(), editOn() and
\* editOff() the undo button is disabled exactly when editing is disabled or
\* the undo stack is empty, and the redo button exactly when editing is
\* disabled or the redo stack is empty
C15_ButtonsFollowHistory == [][Completed => (disabled'.undo = (~editingEnabled' \/ historyUndo' = <<>>) /\ disabled'.redo = (~editingEnabled' \/ historyRedo' = <<>>))]_vars

\* an undo() emptied the undo stack: the undo button is disabled and the redo
\* button enabled
C15_Witness ==
    /\ lastOp = "undo" /\ ~threw /\ applied > 0
    /\ editingEnabled
    /\ historyUndo = <<>>
    /\ disabled = [undo |-> TRUE, redo |-> FALSE]

\* C16: contentchanges is dispatched only by a delivery that pushed a record
\* and by an undo() or redo() that replayed at least one record
C16_ContentChangesOnlyOnChange == fired.contentchanges > 0 => applied > 0

\* C17: the window the editor groups with is at least MIN_GROUPING_WINDOW_MS
\* whatever was given to the constructor, and the default when nothing was given
C17_WindowAtLeastMinimum ==
    /\ options.mutationGroupingWindowMs >= Ms(MIN_GROUPING_WINDOW_MS)
    /\ options.supplied = <<>> => options.mutationGroupingWindowMs = Ms(DefaultGroupingWindowMs)

\* C18: a mutation of the observed subtree made while editing is enabled whose
\* notification is pending when undo() or redo() is called is a record of the
\* undo or of the redo stack after the call
C18_PendingRecordedAcrossReplay == [][((Undo \/ Redo) /\ editingEnabled /\ pending # <<>>) => (Len(historyUndo') + Len(historyRedo') = Len(historyUndo) + Len(historyRedo) + Len(pending))]_vars

\* C19: once every pending batch is delivered the force list holds no token of
\* a write the image dialog has performed
C19_NoTokenLeftAfterDelivery == pending = <<>> => historyForce = <<>>

\* C20: the timestamps of the records of the undo stack never decrease from the
\* bottom of the stack to its top
C20_TimestampsNonDecreasing ==
    \A i \in 1..(Len(historyUndo) - 1) : historyUndo[i].time <= historyUndo[i + 1].time

\* the test of the grouping window as the spec states it, for a record and the
\* timestamp of the record popped before it
BeyondWindow(undo, m, previousTimestamp) ==
    IF undo THEN m.time + options.mutationGroupingWindowMs < previousTimestamp
    ELSE m.time - options.mutationGroupingWindowMs > previousTimestamp

\* the call popped the top record of source, applied it, and ended at the
\* record below it, which stays on source
EndsAtSecond(source, dest, sourceAfter, destAfter) ==
    /\ sourceAfter = Front(source)
    /\ destAfter = Append(dest, Last(source))
    /\ applied' = 1
    /\ ~threw'

\* C21: in undo() and in redo(), when the first record popped was applied and
\* the second is beyond the grouping window of it, whatever the timestamps, the
\* second record stays on the source stack, is not applied, and the call ends
C21_RecordBeyondWindowEndsGroup == [][(((Undo /\ Len(historyUndo) >= 2 /\ applied' >= 1 /\ BeyondWindow(TRUE, historyUndo[Len(historyUndo) - 1], Last(historyUndo).time)) => EndsAtSecond(historyUndo, historyRedo, historyUndo', historyRedo')) /\ ((Redo /\ Len(historyRedo) >= 2 /\ applied' >= 1 /\ BeyondWindow(FALSE, historyRedo[Len(historyRedo) - 1], Last(historyRedo).time)) => EndsAtSecond(historyRedo, historyUndo, historyRedo', historyUndo')))]_vars

\* the state undoredo works on, with the given stacks and document
ReplayState(source, dest, kids, text, attrs, focused) ==
    [source |-> source, dest |-> dest, children |-> kids, nodeValue |-> text,
     attributes |-> attrs, focused |-> focused, previousTime |-> <<>>,
     threw |-> FALSE, applied |-> 0]

\* the stacks and the document after undo() in the current state
AfterUndo ==
    whileGrouping(TRUE, ReplayState(historyUndo, historyRedo, children, nodeValue,
                                    attributes, focusedElement))

\* the stacks and the document after undo() and then redo()
AfterUndoRedo ==
    whileGrouping(FALSE, ReplayState(AfterUndo.dest, AfterUndo.source, AfterUndo.children,
                                     AfterUndo.nodeValue, AfterUndo.attributes,
                                     AfterUndo.focused))

\* undo() and then redo(), called in the current state, leave the stacks and
\* the document as they are
RoundTrip ==
    /\ AfterUndoRedo.dest = historyUndo
    /\ AfterUndoRedo.source = historyRedo
    /\ AfterUndoRedo.children = children
    /\ AfterUndoRedo.nodeValue = nodeValue
    /\ AfterUndoRedo.attributes = attributes

\* C22: in linear mode, with a group to revert on the undo stack and no edit
\* waiting to be captured, undo() followed immediately by redo() leaves the undo
\* stack, the redo stack and the document as they were before the undo()
C22_UndoRedoRoundTrip == [][(Undo /\ options.usesLinearUndoHistory /\ historyUndo # <<>> /\ pending = <<>>) => RoundTrip]_vars

\* the number of times token t is on the force list
CountOf(force, t) == Cardinality({i \in 1..Len(force) : force[i] = t})

\* the one attributes record of a batch that is delivered in this step while
\* capture is active
AttributesDelivery ==
    /\ lastOp' = "capture"
    /\ editingEnabled /\ ~ignoreMutations
    /\ Len(pending) = 1
    /\ pending[1].type = "attributes"

\* the target of the record is in the focus root or in the head, and its
\* attribute name with the current value of the attribute is a token of the
\* force list (the value of a removed attribute counting as the empty string)
Authorized(m) ==
    /\ contains(children, focusedElement, m.target) \/ headContains(m.target)
    /\ Token(m.attributeName, OrEmpty(attributes[m.attributeName])) \in Range(historyForce)

\* the delivery pushed one attributes record and removed one instance of its
\* token from the force list
AcceptedWithToken(m) ==
    /\ Len(historyUndo') = Len(historyUndo) + 1
    /\ Last(historyUndo').type = "attributes"
    /\ Last(historyUndo').attributeName = m.attributeName
    /\ \A t \in Range(historyForce) :
          CountOf(historyForce', t) = CountOf(historyForce, t) - (IF t = Token(m.attributeName, OrEmpty(attributes[m.attributeName])) THEN 1 ELSE 0)
    /\ Len(historyForce') = Len(historyForce) - 1

\* C23: an attributes notification delivered while capture is active pushes an
\* attributes record exactly when its target is in the focus root or the head
\* and its (name, current value) pair is a token of the force list; on
\* acceptance one instance of the token is removed, on rejection the two stacks
\* and the force list are unchanged
C23_AttributesAcceptedIffAuthorized == [][AttributesDelivery => (IF Authorized(pending[1]) THEN AcceptedWithToken(pending[1]) ELSE UNCHANGED <<historyUndo, historyRedo, historyForce>>)]_vars

\* the records of a stack with the number of times each is on it
BagOf(stack) == [r \in Range(stack) |-> Cardinality({i \in 1..Len(stack) : stack[i] = r})]

\* C24: undo() and redo() leave no batch to deliver, and the records on the two
\* stacks together after the call are the records that were on them before it,
\* each as many times as before
C24_ReplayProducesNoRecords == [][(Undo \/ Redo) => (pending' = <<>> /\ BagOf(historyUndo' \o historyRedo') = BagOf(historyUndo \o historyRedo))]_vars

\* undo() has written to the document: it reverted a structure change and a
\* text change and moved their records to the redo stack
C24_Witness ==
    /\ lastOp = "undo"
    /\ applied >= 2
    /\ pending = <<>>
    /\ "childList" \in KindsOf(historyRedo)
    /\ "characterData" \in KindsOf(historyRedo)

\* C25: a batch delivered while editing is disabled or capture is suspended
\* pushes no record on the undo stack, leaves the redo stack and the force list
\* as they are and fires neither contentchanges nor editorchanges
C25_NoCaptureWhileDisabled == [][(lastOp' = "capture" /\ (~editingEnabled \/ ignoreMutations)) => (UNCHANGED <<historyUndo, historyRedo, historyForce>> /\ fired' = NoEvents)]_vars

\* a batch has been delivered while editing was disabled and the two stacks
\* held records
C25_Witness ==
    /\ lastOp = "capture"
    /\ ~editingEnabled
    /\ historyUndo # <<>>
    /\ historyRedo # <<>>

\* the children of the editable as the page is constructed
InitialChildren == <<"p", "img">>

\* the undo stack holds one group of structure changes, the whole history of
\* the page, and nothing is waiting to be captured
StructureGroupIsHistory ==
    /\ pending = <<>>
    /\ historyRedo = <<>>
    /\ GroupOnUndoStack
    /\ KindsOf(historyUndo) = {"childList"}

\* the undo stack holds structure changes only and nothing is waiting to be
\* captured
StructureOnUndoStack ==
    /\ pending = <<>>
    /\ historyUndo # <<>>
    /\ KindsOf(historyUndo) = {"childList"}

\* C27: undo() of a group of structure changes gives the editable the children
\* it had before the first edit of the group, in the same order, and a
\* following redo() gives it the children it had after the last edit
C27_StructureGroupRestored ==
    /\ StructureGroupIsHistory => AfterUndo.children = InitialChildren
    /\ StructureOnUndoStack => AfterUndoRedo.children = children

\* C28: when undo() or redo() ends, by returning or by raising, the observer is
\* attached again if editing is enabled
C28_CaptureActiveAfterReplay == [][(Undo \/ Redo) => (editingEnabled' => observing')]_vars

\* the records of a stack that were not on it before, given the stack before
\* and after a call that pushes on top of it
PushedOnto(before, after) == IF Len(after) > Len(before) THEN SubSeq(after, Len(before) + 1, Len(after)) ELSE <<>>

\* C29: after undo() or redo() the destination stack holds as many more records
\* as were applied to the document: a record whose application raised is not
\* on it but still on the source stack
C29_MovedOnlyIfApplied == [][((Undo => (Len(PushedOnto(historyRedo, historyRedo')) = applied' /\ Len(historyUndo) - Len(historyUndo') = applied')) /\ (Redo => (Len(PushedOnto(historyUndo, historyUndo')) = applied' /\ Len(historyRedo) - Len(historyRedo') = applied')))]_vars

\* C26: getDocumentHTML() leaves the undo stack, the redo stack and the force
\* list as they are, and so does the delivery of the batch that is pending when
\* it returns
C26_ExportLeavesHistory == [][((lastOp' = "getDocumentHTML") \/ (lastOp = "getDocumentHTML" /\ lastOp' = "capture")) => UNCHANGED <<historyUndo, historyRedo, historyForce>>]_vars

\* the node a record refers to is in the document
NodeAttached(target) ==
    \/ target \in CurrentTextNodes
    \/ Attached(children, IF target = "t" THEN "p" ELSE target)

\* C30: every node a record on the undo or the redo stack refers to that is in
\* the document when getDocumentHTML() is called is in the document when it
\* returns
C30_RecordedNodesStayAttached == [][(lastOp' = "getDocumentHTML") => (\A r \in Range(historyUndo \o historyRedo) : NodeAttached(r.target) => NodeAttached(r.target)')]_vars

\* the attributes records a delivery pushed on the undo stack
AttributesPushed ==
    SelectSeq(PushedOnto(historyUndo, historyUndo'), LAMBDA r : r.type = "attributes")

\* C31: a delivery raises no error, whatever value historyForceCheck accepted
\* (the value of a removed attribute included), and removes one token from the
\* force list for every attributes record it pushed: the whole batch is handled
C31_ConsumeRemovesTokenWithoutError == [][(lastOp' = "capture" /\ editingEnabled) => (~threw' /\ Len(historyForce) - Len(historyForce') = Len(AttributesPushed))]_vars

\* C32: when getDocumentHTML(selector) raises because the selector matches no
\* element, the restorable and the removable elements have the content and
\* the attributes they had before the call
C32_ExportErrorLeavesDocument == [][(lastOp' = "getDocumentHTML" /\ threw') => (tagContent' = tagContent /\ elAttributes' = elAttributes /\ removables' = removables)]_vars

\* C33: removable() followed by undoRemovable(), as getDocumentHTML calls them,
\* gives every ncsedt-removable element the innerHTML it had before, for any
\* number and arrangement of elements, a nested one followed by others included
C33_RemovableRoundTrip == [][(lastOp' = "getDocumentHTML" /\ ~threw') => (Len(removables') = Len(removables) /\ \A i \in 1..Len(removables) : innerHTML(removables'[i]) = innerHTML(removables[i]))]_vars

\* C35: a delivered batch with at least one accepted record fires
\* contentchanges exactly once, however many of its records are accepted
C35_ContentChangesOncePerBatch == [][(lastOp' = "capture" /\ editingEnabled /\ PushedOnto(historyUndo, historyUndo') # <<>>) => fired'.contentchanges = 1]_vars

\* the token is text of the document
IsText(tok) == tok \in {"X", "Y"}

\* position k of the string lies in a span from a begin sentinel to the first
\* end sentinel after it
InsideSpan(s, k) ==
    \E i \in 1..(k - 1), j \in (k + 1)..Len(s) :
        /\ s[i] \in ImplementBeginTokens
        /\ s[j] \in ImplementEndTokens
        /\ \A m \in (i + 1)..(k - 1) : s[m] \notin ImplementEndTokens

\* the text of the string outside every begin/end span, in order
RECURSIVE TextOutsideSpans(_, _)
TextOutsideSpans(s, k) ==
    IF k > Len(s) THEN <<>>
    ELSE (IF IsText(s[k]) /\ ~InsideSpan(s, k) THEN <<s[k]>> ELSE <<>>)
         \o TextOutsideSpans(s, k + 1)

\* C37: ncsedtRemover removes each begin/end span and nothing else of the text:
\* the text outside the spans, the text between two separate begin/end pairs
\* included, is in the output, in order
C37_TextOutsideSpansKept == lastOp = "ncsedtRemover" => SelectSeq(exported, IsText) = TextOutsideSpans(input, 1)

\* C36: every undo() and every redo() fires contentchanges and editorchanges
\* exactly once each, after the group has been applied and capture is on again
C36_ReplayFiresEachEventOnce == [][(Undo \/ Redo) => (fired'.contentchanges = 1 /\ fired'.editorchanges = 1 /\ (editingEnabled' => observing'))]_vars

\* the records a replay took from the source stack, the last one first
Popped(before, after) == Reverse(SubSeq(before, Len(after) + 1, Len(before)))

\* the replay only pops the source stack, and what it popped is what it pushed
\* on the destination stack, in the order of popping
OnlyPops(source, sourceAfter, dest, destAfter) ==
    /\ Len(sourceAfter) <= Len(source)
    /\ sourceAfter = SubSeq(source, 1, Len(sourceAfter))
    /\ destAfter = dest \o Popped(source, sourceAfter)

\* C38: undo() and redo() end in one step, the loop having popped at most the
\* records the source stack held at the call: the source stack afterwards is
\* a prefix of what it was and the destination stack has gained the popped
\* records and no other
C38_ReplayTerminates == [][((Undo => OnlyPops(historyUndo, historyUndo', historyRedo, historyRedo')) /\ (Redo => OnlyPops(historyRedo, historyRedo', historyUndo, historyUndo')))]_vars

\* an undo() popped a group of two records and stopped at the end of the group,
\* with a record left on the undo stack
C38_Witness ==
    /\ lastOp = "undo"
    /\ ~threw
    /\ applied = 2
    /\ Len(historyRedo) = 2
    /\ Len(historyUndo) = 1

\* C34: once the script is loaded exactly one store has been built, and none
\* before; every editor instance uses that store; its baseline is the state of
\* the restorable elements when the script was loaded
C34_OneStoreBuiltAtLoad ==
    /\ Len(constructed) = (IF ncsedtRestorableObj.inWindow THEN 1 ELSE 0)
    /\ \A i \in 1..Len(editors) : editors[i] = 1
    /\ \A k \in 1..Len(constructed) :
          /\ constructed[k].savedHTML = "<i>load</i>"
          /\ constructed[k].savedAttributes["class"] = "preload"

====
